---- MODULE Spec2Model ----
(***************************************************************************)
(* Model of the gradle-flow task graph editor: the graph held by the       *)
(* canvas component (nodes, edges), the dependency resolver                *)
(* (getExecutionOrder) and the execution orchestrator (handleRun and the   *)
(* Stop / Pause / Resume / Reset handlers).                                *)
(***************************************************************************)
EXTENDS Integers, Sequences, FiniteSets, TLC

(***************************************************************************)
(* Bounds of the model.                                                    *)
(***************************************************************************)
MaxNodes == 2        \* nodes of the graphs the orchestrator runs over
MaxRuns == 2         \* handleRun invocations in one behaviour
MaxLiveRuns == 1     \* the same, in the behaviours of SpecLive
MaxOverlapRuns == 3  \* the same, in the behaviours of SpecOverlap
MaxOrderNodes == 3   \* nodes of the graphs getExecutionOrder is applied to
MaxOrderEdges == 3   \* edges of those graphs
MaxDrops == 1        \* nodes created on the canvas in one behaviour of SpecEdit
MaxEditEdges == 2    \* length of the edge array in SpecEdit
MaxValidateNodes == 3  \* nodes of the graphs validateConnection is applied to
MaxValidateEdges == 2  \* edges of those graphs

\* let nodeIdCounter = 100 (part_010:69)
InitialNodeIdCounter == 100

NodeIds == 1..MaxNodes
RunIds == 1..MaxOverlapRuns

DependencyType == {"dependsOn", "mustRunAfter", "shouldRunAfter", "finalizedBy"}
TaskExecutionStatus == {"idle", "pending", "running", "success", "failed", "skipped"}

VARIABLES
    nodes,              \* useNodesState: the node array, in array order
    edges,              \* useEdgesState: the edge array, in array order
    executionState,     \* useState<ExecutionState>
    abortControllerRef, \* useRef: the run whose AbortController is current, 0 = null
    runs,               \* one record per handleRun invocation (its closure and position)
    runCount,           \* number of handleRun invocations that started a loop
    hist,               \* history: which run created the ExecutionState / wrote its flags
    nodeIdCounter,      \* let nodeIdCounter (module scope of the canvas component)
    orderArgs,          \* arguments of the last getExecutionOrder call under check
    orderOut,           \* its result
    variables,          \* useState<Variable[]>: the variable array, in array order
    call,               \* the last call of another pure function under check
    variableIdCounter,  \* let variableIdCounter (module scope of variableUtils.ts)
    groups              \* the TaskGroup array the group panel is given

vars == <<nodes, edges, executionState, abortControllerRef, runs, runCount,
          hist, nodeIdCounter, orderArgs, orderOut, variables, call,
          variableIdCounter, groups>>

(***************************************************************************)
(* Sequence helpers.                                                       *)
(***************************************************************************)
SeqToSet(s) == {s[i] : i \in DOMAIN s}

IndexOf(s, x) == IF x \in SeqToSet(s) THEN CHOOSE i \in DOMAIN s : s[i] = x /\ \A j \in 1..(i-1) : s[j] # x ELSE 0

MapIds(ns) == [i \in DOMAIN ns |-> ns[i].id]

MapSources(es) == [i \in DOMAIN es |-> es[i].source]

MapTargets(es) == [i \in DOMAIN es |-> es[i].target]

(***************************************************************************)
(* getExecutionOrder (executionUtils.ts).                                  *)
(***************************************************************************)
enabledNodes(ns) == SelectSeq(ns, LAMBDA n : n.enabled)

enabledNodeIds(ns) == SeqToSet(MapIds(enabledNodes(ns)))

\* The condition under which an edge enters inDegree / adjacency.
IsOrderEdge(e, ns) ==
    /\ e.kind = "dependsOn"
    /\ e.source \in enabledNodeIds(ns)
    /\ e.target \in enabledNodeIds(ns)

\* A resolver that records only whether a node has a predecessor.
InitialInDegreeFlag(ns, es) ==
    [n \in enabledNodeIds(ns) |->
        IF \E i \in DOMAIN es : IsOrderEdge(es[i], ns) /\ es[i].target = n THEN 1 ELSE 0]

InitialInDegree(ns, es) ==
    [n \in enabledNodeIds(ns) |->
        Cardinality({i \in DOMAIN es : IsOrderEdge(es[i], ns) /\ es[i].target = n})]

Adjacency(ns, es) ==
    [n \in enabledNodeIds(ns) |->
        MapTargets(SelectSeq(es, LAMBDA e : IsOrderEdge(e, ns) /\ e.source = n))]

\* The while (toVisit.length > 0) loop: pop from the end, push the sources
\* of the dependsOn edges that enter the popped node.
RECURSIVE BackWalk(_, _, _, _)
BackWalk(toVisit, required, ns, es) ==
    IF toVisit = <<>> THEN required
    ELSE LET nodeId == toVisit[Len(toVisit)]
             rest == SubSeq(toVisit, 1, Len(toVisit) - 1)
         IN IF nodeId \notin required /\ nodeId \in enabledNodeIds(ns)
            THEN BackWalk(rest \o MapSources(SelectSeq(es,
                              LAMBDA e : e.target = nodeId /\ e.kind = "dependsOn")),
                          required \cup {nodeId}, ns, es)
            ELSE BackWalk(rest, required, ns, es)

RequiredNodes(ns, es, targetTaskIds) ==
    IF Len(targetTaskIds) > 0
    THEN BackWalk(targetTaskIds, {}, ns, es)
    ELSE enabledNodeIds(ns)

\* for (const neighbor of neighbors): decrement, enqueue on zero.
RECURSIVE Relax(_, _, _, _)
Relax(neighbors, inDegree, queue, required) ==
    IF neighbors = <<>> THEN [inDegree |-> inDegree, queue |-> queue]
    ELSE LET neighbor == Head(neighbors)
             old == IF inDegree[neighbor] = 0 THEN 1 ELSE inDegree[neighbor]
             newDegree == old - 1
         IN Relax(Tail(neighbors),
                  [inDegree EXCEPT ![neighbor] = newDegree],
                  IF newDegree = 0 /\ neighbor \in required
                  THEN Append(queue, neighbor) ELSE queue,
                  required)

\* while (queue.length > 0): shift, push to result, relax the neighbours.
RECURSIVE KahnLoop(_, _, _, _, _)
KahnLoop(queue, inDegree, result, adjacency, required) ==
    IF queue = <<>> THEN result
    ELSE LET current == Head(queue)
             r == Relax(adjacency[current], inDegree, Tail(queue), required)
         IN KahnLoop(r.queue, r.inDegree,
                     IF current \in required THEN Append(result, current) ELSE result,
                     adjacency, required)

getExecutionOrder(ns, es, targetTaskIds) ==
    LET required == RequiredNodes(ns, es, targetTaskIds)
        inDegree == InitialInDegree(ns, es)
        queue == MapIds(SelectSeq(enabledNodes(ns),
                     LAMBDA n : inDegree[n.id] = 0 /\ n.id \in required))
    IN KahnLoop(queue, inDegree, <<>>, Adjacency(ns, es), required)

(***************************************************************************)
(* Node and edge records.  execute stands for the value of                 *)
(* shouldExecuteTask(node.data.condition, variables).execute.              *)
(***************************************************************************)
Node(id, enabled, execute) ==
    [id |-> id, enabled |-> enabled, execute |-> execute,
     dependsOn |-> <<>>, executionStatus |-> "idle"]

Edge(source, target, kind) ==
    [id |-> <<source, target>>, source |-> source, target |-> target, kind |-> kind]

(***************************************************************************)
(* Variables.                                                              *)
(***************************************************************************)
Variable(id, name, value, isSystem) ==
    [id |-> id, name |-> name, value |-> value, isSystem |-> isSystem]

\* export const systemVariables (part_004:175-212)
systemVariables ==
    << Variable("sys_project_dir", "projectDir", ".", TRUE),
       Variable("sys_build_dir", "buildDir", "build", TRUE),
       Variable("sys_version", "version", "1.0.0", TRUE),
       Variable("sys_group", "group", "com.example", TRUE) >>

\* No pure function has been applied yet.
NoFunctionCall == [fn |-> "none"]

(***************************************************************************)
(* ExecutionState.  logs is kept as the set of origins of its entries      *)
(* (a run id, or 0 for an entry written by a user handler); each           *)
(* taskResults record carries, next to its status, the run that wrote it.  *)
(***************************************************************************)
createInitialExecutionState ==
    [isRunning |-> FALSE, isPaused |-> FALSE, hasStartTime |-> FALSE,
     hasEndTime |-> FALSE, currentTaskId |-> 0,
     taskResults |-> <<>>, executionOrder |-> <<>>, logs |-> {}]

NoRun == [pc |-> "none", order |-> <<>>, idx |-> 0, aborted |-> FALSE, execute |-> <<>>]

\* A handleRun invocation that has returned: its closure is garbage.
DoneRun == [NoRun EXCEPT !.pc = "done"]

InitHist == [owner |-> 0, endBy |-> 0, runningBy |-> 0]

\* updateNodeExecutionStatus (part_010:368-386)
updateNodeExecutionStatus(ns, nodeId, status) ==
    [i \in DOMAIN ns |->
        IF ns[i].id = nodeId THEN [ns[i] EXCEPT !.executionStatus = status] ELSE ns[i]]

\* clearNodeExecutionStatuses (part_010:391-406)
clearNodeExecutionStatuses(ns) ==
    [i \in DOMAIN ns |-> [ns[i] EXCEPT !.executionStatus = "idle"]]

\* new Map(prev.taskResults).set(taskId, {..., status})
SetResult(results, taskId, status, r) ==
    [n \in (DOMAIN results) \cup {taskId} |->
        IF n = taskId THEN [status |-> status, by |-> r] ELSE results[n]]

NodeById(ns, nodeId) == ns[CHOOSE i \in DOMAIN ns : ns[i].id = nodeId]

StatusOf(ns, nodeId) == NodeById(ns, nodeId).executionStatus

\* stats.completed of the ExecutionPanel (part_007:60-84)
StatsCompleted(es) ==
    Cardinality({n \in DOMAIN es.taskResults :
        es.taskResults[n].status \in {"success", "failed", "skipped"}})

(***************************************************************************)
(* The synchronous stretches of handleRun.  A value of the form            *)
(* [nodes, es, hist, pc, idx] is the state a stretch leaves behind.        *)
(***************************************************************************)
\* A completion that stamps no end time.
MarkCompleteNoStamp(r, ns, es, h) ==
    [nodes |-> ns,
     es |-> [es EXCEPT !.isRunning = FALSE, !.isPaused = FALSE,
                       !.currentTaskId = 0, !.logs = @ \cup {r}],
     hist |-> [h EXCEPT !.runningBy = r],
     pc |-> "done", idx |-> 0]

\* "Mark execution as complete" (part_010:585-595)
MarkComplete(r, ns, es, h) ==
    [nodes |-> ns,
     es |-> [es EXCEPT !.isRunning = FALSE, !.isPaused = FALSE, !.hasEndTime = TRUE,
                       !.currentTaskId = 0, !.logs = @ \cup {r}],
     hist |-> [h EXCEPT !.endBy = r, !.runningBy = r],
     pc |-> "done", idx |-> 0]

RECURSIVE LoopTop(_, _, _, _, _, _, _)
RECURSIVE LoopBody(_, _, _, _, _, _, _)

\* Top of the for loop up to the first await (part_010:459-470).
LoopTop(r, run, ref, i, ns, es, h) ==
    IF i > Len(run.order) \/ run.aborted
    THEN MarkComplete(r, ns, es, h)
    ELSE IF ref = r
         THEN [nodes |-> ns, es |-> es, hist |-> h, pc |-> "pausePoll", idx |-> i]
         ELSE LoopBody(r, run, ref, i, ns, es, h)

\* A loop body without the abort check that follows the pause wait.
LoopBodyNoAbort(r, run, ref, i, ns, es, h) ==
    LET taskId == run.order[i] IN
    IF ~run.execute[taskId]
    THEN LoopTop(r, run, ref, i + 1,
                 updateNodeExecutionStatus(ns, taskId, "skipped"),
                 [es EXCEPT !.taskResults = SetResult(@, taskId, "skipped", r),
                            !.logs = @ \cup {r}],
                 h)
    ELSE [nodes |-> updateNodeExecutionStatus(ns, taskId, "running"),
          es |-> [es EXCEPT !.currentTaskId = taskId,
                            !.taskResults = SetResult(@, taskId, "running", r),
                            !.logs = @ \cup {r}],
          hist |-> h, pc |-> "exec", idx |-> i]

\* After the pause wait: abort check, condition check, mark running
\* (part_010:480-522).
LoopBody(r, run, ref, i, ns, es, h) ==
    LET taskId == run.order[i] IN
    IF run.aborted
    THEN MarkComplete(r, ns, es, h)
    ELSE IF ~run.execute[taskId]
         THEN LoopTop(r, run, ref, i + 1,
                      updateNodeExecutionStatus(ns, taskId, "skipped"),
                      [es EXCEPT !.taskResults = SetResult(@, taskId, "skipped", r),
                                 !.logs = @ \cup {r}],
                      h)
         ELSE [nodes |-> updateNodeExecutionStatus(ns, taskId, "running"),
               es |-> [es EXCEPT !.currentTaskId = taskId,
                                 !.taskResults = SetResult(@, taskId, "running", r),
                                 !.logs = @ \cup {r}],
               hist |-> h, pc |-> "exec", idx |-> i]

\* "Mark remaining tasks as skipped" (part_010:563-581)
RECURSIVE SkipRemaining(_, _, _, _, _)
SkipRemaining(r, order, i, ns, es) ==
    IF i > Len(order) THEN [nodes |-> ns, es |-> es]
    ELSE SkipRemaining(r, order, i + 1,
                       updateNodeExecutionStatus(ns, order[i], "skipped"),
                       [es EXCEPT !.taskResults = SetResult(@, order[i], "skipped", r)])

\* A completion that goes on to the next node after a failure.
AfterTaskNoFailFast(r, run, ref, success, ns, es, h) ==
    LET taskId == run.order[run.idx]
        status == IF success THEN "success" ELSE "failed"
    IN LoopTop(r, run, ref, run.idx + 1,
               updateNodeExecutionStatus(ns, taskId, status),
               [es EXCEPT !.taskResults = SetResult(@, taskId, status, r),
                          !.logs = @ \cup {r}],
               h)

\* Completion of the awaited unit of work (part_010:533-583).
AfterTask(r, run, ref, success, ns, es, h) ==
    LET taskId == run.order[run.idx]
        status == IF success THEN "success" ELSE "failed"
        ns1 == updateNodeExecutionStatus(ns, taskId, status)
        es1 == [es EXCEPT !.taskResults = SetResult(@, taskId, status, r),
                          !.logs = @ \cup {r}]
    IN IF success
       THEN LoopTop(r, run, ref, run.idx + 1, ns1, es1, h)
       ELSE LET sk == SkipRemaining(r, run.order, run.idx + 1, ns1, es1)
            IN MarkComplete(r, sk.nodes, sk.es, h)

\* Writes the state a stretch of run r leaves behind.
Leave(r, res) ==
    /\ nodes' = res.nodes
    /\ executionState' = res.es
    /\ hist' = res.hist
    /\ runs' = IF res.pc = "done"
               THEN [runs EXCEPT ![r] = DoneRun]
               ELSE [runs EXCEPT ![r].pc = res.pc, ![r].idx = res.idx]
    /\ abortControllerRef' = IF res.pc = "done" THEN 0 ELSE abortControllerRef

(***************************************************************************)
(* Actions of the orchestrator.                                            *)
(***************************************************************************)
SetToSeq(S) ==
    LET f[T \in SUBSET S] ==
          IF T = {} THEN <<>>
          ELSE LET m == CHOOSE x \in T : \A y \in T : x <= y
               IN <<m>> \o f[T \ {m}]
    IN f[S]

\* handleRun up to its first await (part_010:411-470); offered by the
\* ExecutionPanel only while !isRunning (part_007:130-139).
Run(selected, limit) ==
    /\ ~executionState.isRunning
    /\ runCount < limit
    /\ LET taskIds == SetToSeq(selected)
           order == getExecutionOrder(nodes, edges, taskIds)
           r == runCount + 1
       IN IF order = <<>>
          THEN /\ executionState' = [executionState EXCEPT !.logs = @ \cup {0}]
               /\ UNCHANGED <<nodes, abortControllerRef, runs, runCount, hist>>
          ELSE LET ns1 == [i \in DOMAIN nodes |->
                              IF nodes[i].id \in SeqToSet(order)
                              THEN [nodes[i] EXCEPT !.executionStatus = "pending"]
                              ELSE nodes[i]]
                   es1 == [isRunning |-> TRUE, isPaused |-> FALSE, hasStartTime |-> TRUE,
                           hasEndTime |-> FALSE, currentTaskId |-> 0,
                           taskResults |-> [n \in SeqToSet(order) |->
                                               [status |-> "pending", by |-> r]],
                           executionOrder |-> order, logs |-> {r}]
                   run == [pc |-> "start", order |-> order, idx |-> 1, aborted |-> FALSE,
                           execute |-> [n \in SeqToSet(MapIds(nodes)) |->
                                           NodeById(nodes, n).execute]]
                   res == LoopTop(r, run, r, 1, ns1, es1,
                                  [owner |-> r, endBy |-> 0, runningBy |-> r])
               IN /\ nodes' = res.nodes
                  /\ executionState' = res.es
                  /\ hist' = res.hist
                  /\ runs' = [runs EXCEPT ![r] = IF res.pc = "done" THEN DoneRun
                                                ELSE [run EXCEPT !.pc = res.pc, !.idx = res.idx]]
                  /\ abortControllerRef' = IF res.pc = "done" THEN 0 ELSE r
                  /\ runCount' = r
    /\ UNCHANGED <<edges, nodeIdCounter, orderArgs, orderOut, variables, call,
                   variableIdCounter, groups>>

\* The state promise of the pause wait resolves (part_010:470-477).
PausePoll(r) ==
    /\ runs[r].pc = "pausePoll"
    /\ IF executionState.isPaused
       THEN /\ runs' = [runs EXCEPT ![r].pc = "pauseSleep"]
            /\ UNCHANGED <<nodes, executionState, hist, abortControllerRef>>
       ELSE Leave(r, LoopBody(r, runs[r], abortControllerRef, runs[r].idx,
                              nodes, executionState, hist))
    /\ UNCHANGED <<edges, runCount, nodeIdCounter, orderArgs, orderOut, variables, call,
                   variableIdCounter, groups>>

\* The 100 ms sleep of the pause wait ends and the while condition is
\* evaluated again (part_010:466-469, 477).
PauseSleep(r) ==
    /\ runs[r].pc = "pauseSleep"
    /\ IF ~runs[r].aborted /\ abortControllerRef = r
       THEN /\ runs' = [runs EXCEPT ![r].pc = "pausePoll"]
            /\ UNCHANGED <<nodes, executionState, hist, abortControllerRef>>
       ELSE Leave(r, LoopBody(r, runs[r], abortControllerRef, runs[r].idx,
                              nodes, executionState, hist))
    /\ UNCHANGED <<edges, runCount, nodeIdCounter, orderArgs, orderOut, variables, call,
                   variableIdCounter, groups>>

\* onProgress callback of simulateTaskExecution (part_010:526-531).
Progress(r) ==
    /\ runs[r].pc = "exec"
    /\ executionState' = [executionState EXCEPT !.logs = @ \cup {r}]
    /\ UNCHANGED <<nodes, edges, abortControllerRef, runs, runCount, hist,
                   nodeIdCounter, orderArgs, orderOut, variables, call,
                   variableIdCounter, groups>>

\* simulateTaskExecution returns (executionUtils.ts:210-221).
TaskReturns(r, success) ==
    /\ runs[r].pc = "exec"
    /\ Leave(r, AfterTask(r, runs[r], abortControllerRef, success,
                          nodes, executionState, hist))
    /\ UNCHANGED <<edges, runCount, nodeIdCounter, orderArgs, orderOut, variables, call,
                   variableIdCounter, groups>>

\* handleStop (part_010:603-614); offered while isRunning (part_007:172-179).
Stop ==
    /\ executionState.isRunning
    /\ runs' = IF abortControllerRef # 0
               THEN [runs EXCEPT ![abortControllerRef].aborted = TRUE]
               ELSE runs
    /\ executionState' = [executionState EXCEPT !.isRunning = FALSE, !.isPaused = FALSE,
                                                !.logs = @ \cup {0}]
    /\ hist' = [hist EXCEPT !.runningBy = 0]
    /\ UNCHANGED <<nodes, edges, abortControllerRef, runCount, nodeIdCounter,
                   orderArgs, orderOut, variables, call,
                   variableIdCounter, groups>>

\* handlePause (part_010:619-625); offered while isRunning and !isPaused.
Pause ==
    /\ executionState.isRunning
    /\ ~executionState.isPaused
    /\ executionState' = [executionState EXCEPT !.isPaused = TRUE, !.logs = @ \cup {0}]
    /\ UNCHANGED <<nodes, edges, abortControllerRef, runs, runCount, hist,
                   nodeIdCounter, orderArgs, orderOut, variables, call,
                   variableIdCounter, groups>>

\* handleResume (part_010:630-636); offered while isRunning and isPaused.
Resume ==
    /\ executionState.isRunning
    /\ executionState.isPaused
    /\ executionState' = [executionState EXCEPT !.isPaused = FALSE, !.logs = @ \cup {0}]
    /\ UNCHANGED <<nodes, edges, abortControllerRef, runs, runCount, hist,
                   nodeIdCounter, orderArgs, orderOut, variables, call,
                   variableIdCounter, groups>>

\* handleReset (part_010:641-644); offered while !isRunning and
\* stats.completed > 0 (part_007:140-149).
Reset ==
    /\ ~executionState.isRunning
    /\ StatsCompleted(executionState) > 0
    /\ nodes' = clearNodeExecutionStatuses(nodes)
    /\ executionState' = createInitialExecutionState
    /\ hist' = InitHist
    /\ UNCHANGED <<edges, abortControllerRef, runs, runCount, nodeIdCounter,
                   orderArgs, orderOut, variables, call,
                   variableIdCounter, groups>>

(***************************************************************************)
(* The orchestrator over a fixed graph.                                    *)
(***************************************************************************)
\* The graphs of the orchestrator runs: nodes 1..MaxNodes joined by the
\* dependsOn chain 1 -> 2 -> ... -> MaxNodes, where the first node is as
\* dropped, or disabled, or has a guard condition that says "do not run".
ChainEdges == [i \in 1..(MaxNodes - 1) |-> Edge(i, i + 1, "dependsOn")]

Init ==
    /\ \E disabled \in {0, 1}, guarded \in {0, 1} :
          /\ disabled + guarded <= 1
          /\ nodes = [i \in NodeIds |-> Node(i, i # disabled, i # guarded)]
    /\ edges = ChainEdges
    /\ executionState = createInitialExecutionState
    /\ abortControllerRef = 0
    /\ runs = [r \in RunIds |-> NoRun]
    /\ runCount = 0
    /\ hist = InitHist
    /\ nodeIdCounter = InitialNodeIdCounter
    /\ orderArgs = [called |-> FALSE, targetTaskIds |-> <<>>]
    /\ orderOut = <<>>
    /\ variables = systemVariables
    /\ variableIdCounter = 0
    /\ groups = <<>>
    /\ call = NoFunctionCall

\* handleRun is called for all tasks (no taskIds) or for the first node.
Selections == {{}, {1}}

Next ==
    \/ \E selected \in Selections : Run(selected, MaxRuns)
    \/ \E r \in RunIds : PausePoll(r)
    \/ \E r \in RunIds : PauseSleep(r)
    \/ \E r \in RunIds : Progress(r)
    \/ \E r \in RunIds, success \in BOOLEAN : TaskReturns(r, success)
    \/ Stop
    \/ Pause
    \/ Resume
    \/ Reset

Spec == Init /\ [][Next]_vars

\* Every awaited promise of a run loop settles: the state promise and the
\* sleep of the pause wait, and the unit of work.
Fairness ==
    \A r \in RunIds :
        /\ WF_vars(PausePoll(r))
        /\ WF_vars(PauseSleep(r))
        /\ WF_vars(\E success \in BOOLEAN : TaskReturns(r, success))

\* The chain graph, with the first node guarded or not and the last node
\* disabled or not.
InitLive ==
    /\ \E disabled \in {0, MaxNodes}, guarded \in {0, 1} :
          nodes = [i \in NodeIds |-> Node(i, i # disabled, i # guarded)]
    /\ edges = ChainEdges
    /\ executionState = createInitialExecutionState
    /\ abortControllerRef = 0
    /\ runs = [r \in RunIds |-> NoRun]
    /\ runCount = 0
    /\ hist = InitHist
    /\ nodeIdCounter = InitialNodeIdCounter
    /\ orderArgs = [called |-> FALSE, targetTaskIds |-> <<>>]
    /\ orderOut = <<>>
    /\ variables = systemVariables
    /\ variableIdCounter = 0
    /\ groups = <<>>
    /\ call = NoFunctionCall

NextLive ==
    \/ \E selected \in Selections : Run(selected, MaxLiveRuns)
    \/ \E r \in RunIds : PausePoll(r)
    \/ \E r \in RunIds : PauseSleep(r)
    \/ \E r \in RunIds : Progress(r)
    \/ \E r \in RunIds, success \in BOOLEAN : TaskReturns(r, success)
    \/ Stop
    \/ Pause
    \/ Resume
    \/ Reset

SpecLive == InitLive /\ [][NextLive]_vars /\ Fairness

\* The orchestrator over the chain graph, with one more run.
InitOverlap ==
    /\ nodes = [i \in NodeIds |-> Node(i, TRUE, TRUE)]
    /\ edges = ChainEdges
    /\ executionState = createInitialExecutionState
    /\ abortControllerRef = 0
    /\ runs = [r \in RunIds |-> NoRun]
    /\ runCount = 0
    /\ hist = InitHist
    /\ nodeIdCounter = InitialNodeIdCounter
    /\ orderArgs = [called |-> FALSE, targetTaskIds |-> <<>>]
    /\ orderOut = <<>>
    /\ variables = systemVariables
    /\ variableIdCounter = 0
    /\ groups = <<>>
    /\ call = NoFunctionCall

NextOverlap ==
    \/ \E selected \in Selections : Run(selected, MaxOverlapRuns)
    \/ \E r \in RunIds : PausePoll(r)
    \/ \E r \in RunIds : PauseSleep(r)
    \/ \E r \in RunIds : Progress(r)
    \/ \E r \in RunIds, success \in BOOLEAN : TaskReturns(r, success)
    \/ Stop
    \/ Pause
    \/ Resume
    \/ Reset

SpecOverlap == InitOverlap /\ [][NextOverlap]_vars

(***************************************************************************)
(* getExecutionOrder applied to bounded graphs.                            *)
(***************************************************************************)
OrderNodeIds == 1..MaxOrderNodes

OrderPairs == {q \in OrderNodeIds \X OrderNodeIds : q[1] # q[2]}

\* Sequences of at most n distinct elements of S.
BoundedSeqs(S, n) ==
    UNION {{f \in [1..k -> S] : \A i, j \in 1..k : i # j => f[i] # f[j]} : k \in 0..n}

\* The edge arrays getExecutionOrder is applied to: no two edges join the
\* same ordered pair of nodes (edge ids are unique); every edge is a
\* dependsOn edge, except that the first one may be a mustRunAfter edge.
OrderEdgeArrays ==
    {[i \in DOMAIN ps |-> Edge(ps[i][1], ps[i][2],
                               IF i = soft THEN "mustRunAfter" ELSE "dependsOn")] :
        ps \in BoundedSeqs(OrderPairs, MaxOrderEdges), soft \in {0, 1}}

NoCall == [called |-> FALSE, targetTaskIds |-> <<>>]

InitOrder ==
    /\ \E disabled \in {0, MaxOrderNodes} :
          nodes = [i \in OrderNodeIds |-> Node(i, i # disabled, TRUE)]
    /\ edges \in OrderEdgeArrays
    /\ executionState = createInitialExecutionState
    /\ abortControllerRef = 0
    /\ runs = [r \in RunIds |-> NoRun]
    /\ runCount = 0
    /\ hist = InitHist
    /\ nodeIdCounter = InitialNodeIdCounter
    /\ orderArgs = NoCall
    /\ orderOut = <<>>
    /\ variables = systemVariables
    /\ variableIdCounter = 0
    /\ groups = <<>>
    /\ call = NoFunctionCall

CallGetExecutionOrder(targetTaskIds) ==
    /\ ~orderArgs.called
    /\ orderArgs' = [called |-> TRUE, targetTaskIds |-> targetTaskIds]
    /\ orderOut' = getExecutionOrder(nodes, edges, targetTaskIds)
    /\ UNCHANGED <<nodes, edges, executionState, abortControllerRef, runs, runCount,
                   hist, nodeIdCounter, variables, call,
                   variableIdCounter, groups>>

NextOrder ==
    \E selected \in {{}} \cup {{n} : n \in OrderNodeIds} :
        CallGetExecutionOrder(SetToSeq(selected))

SpecOrder == InitOrder /\ [][NextOrder]_vars

(***************************************************************************)
(* Graph predicates used by the properties.                                *)
(***************************************************************************)
DependsOnPairs(es) ==
    {<<es[i].source, es[i].target>> : i \in {j \in DOMAIN es : es[j].kind = "dependsOn"}}

\* Nodes reachable from a along one or more pairs of R.
RECURSIVE ReachFrom(_, _)
ReachFrom(frontier, R) ==
    LET next == frontier \cup {p[2] : p \in {q \in R : q[1] \in frontier}}
    IN IF next = frontier THEN frontier ELSE ReachFrom(next, R)

Successors(a, R) == ReachFrom({p[2] : p \in {q \in R : q[1] = a}}, R)

HasCycle(R) == \E p \in R : p[1] \in Successors(p[1], R)

(***************************************************************************)
(* C2: for a graph whose dependsOn edges contain no cycle, the result of   *)
(* getExecutionOrder places the source of every dependsOn edge between two *)
(* nodes of the result before the edge's target.                           *)
(***************************************************************************)
C2_TopologicalOrder ==
    (orderArgs.called /\ ~HasCycle(DependsOnPairs(edges))) =>
        \A p \in DependsOnPairs(edges) :
            (p[1] \in SeqToSet(orderOut) /\ p[2] \in SeqToSet(orderOut)) =>
                IndexOf(orderOut, p[1]) < IndexOf(orderOut, p[2])

C2_Witness ==
    /\ orderArgs.called
    /\ ~HasCycle(DependsOnPairs(edges))
    /\ Len(orderOut) = 3
    /\ Cardinality(DependsOnPairs(edges)) = 3
    /\ orderOut # <<1, 2, 3>>

(***************************************************************************)
(* State functions of the orchestrator used by the properties.             *)
(***************************************************************************)
ActiveRuns == {r \in RunIds : runs[r].pc \in {"pausePoll", "pauseSleep", "exec"}}

InFlightRuns == {r \in RunIds : runs[r].pc = "exec"}

RunningNodes == {i \in DOMAIN nodes : nodes[i].executionStatus = "running"}

ResultStatus(es, n) ==
    IF n \in DOMAIN es.taskResults THEN es.taskResults[n].status ELSE "idle"

\* The step starts a new run (handleRun replaced the ExecutionState).
RunStarts == runCount' = runCount + 1

\* The step is handleReset.
ResetHappens ==
    /\ executionState' = createInitialExecutionState
    /\ executionState # createInitialExecutionState

\* The step is taken by the loop of run r (and not by a user handler).
LoopStep(r) ==
    /\ runs[r].pc \in {"pausePoll", "pauseSleep", "exec"}
    /\ <<runs'[r].pc, runs'[r].idx>> # <<runs[r].pc, runs[r].idx>>

\* Node n is marked running in this step.
MarkedRunning(n) ==
    /\ StatusOf(nodes, n) # "running"
    /\ StatusOf(nodes', n) = "running"

(***************************************************************************)
(* C3: under every interleaving of Run, Stop, Pause, Resume and Reset at   *)
(* most one run loop is active, at most one unit of work is in flight and  *)
(* at most one node is running.                                            *)
(***************************************************************************)
C3_SingleWriter ==
    /\ Cardinality(ActiveRuns) <= 1
    /\ Cardinality(InFlightRuns) <= 1
    /\ Cardinality(RunningNodes) <= 1

(***************************************************************************)
(* C1: once a node of the frozen execution order is failed, every node     *)
(* after it in the order is skipped and the run has ended (state part);    *)
(* none of the nodes after it is marked running and the nodes that are     *)
(* success stay success, as long as the ExecutionState is neither reset    *)
(* nor replaced by a new run (step part).                                  *)
(***************************************************************************)
FailedAt(es, i) == ResultStatus(es, es.executionOrder[i]) = "failed"

C1_FailFastState ==
    \A i \in DOMAIN executionState.executionOrder :
        FailedAt(executionState, i) =>
            /\ \A j \in DOMAIN executionState.executionOrder :
                  j > i => ResultStatus(executionState, executionState.executionOrder[j]) = "skipped"
            /\ ~executionState.isRunning
            /\ executionState.hasEndTime
            /\ ActiveRuns = {}

C1_FailFastStep ==
    (~RunStarts /\ ~ResetHappens) =>
        \A i \in DOMAIN executionState.executionOrder :
            FailedAt(executionState, i) =>
                \A j \in DOMAIN executionState.executionOrder :
                    LET n == executionState.executionOrder[j] IN
                    /\ j > i => ~MarkedRunning(n)
                    /\ ResultStatus(executionState, n) = "success" =>
                          ResultStatus(executionState', n) = "success"

C1_FailFast == [][C1_FailFastStep /\ C1_FailFastState']_vars

(***************************************************************************)
(* C5: every change of a node's execution status is a step of the state    *)
(* machine idle -> pending -> running -> {success | failed | skipped}:     *)
(* running only from pending, success or failed only from running, skipped *)
(* only from pending, and no change out of success, failed or skipped      *)
(* except by a reset (to idle) or the start of a new run (to pending).     *)
(***************************************************************************)
StatusStepAllowed(old, new) ==
    \/ old = new
    \/ new = "pending" /\ RunStarts
    \/ new = "idle" /\ ResetHappens
    \/ old = "pending" /\ new = "running"
    \/ old = "running" /\ new \in {"success", "failed"}
    \/ old = "pending" /\ new = "skipped"

C5_StatusMachine ==
    [][\A i \in DOMAIN nodes :
          StatusStepAllowed(nodes[i].executionStatus, nodes'[i].executionStatus)]_vars

(***************************************************************************)
(* C6: a run starts from a fresh ExecutionState whose result map holds     *)
(* exactly the nodes of the new order, all pending, and the ExecutionState *)
(* of a run never holds a result, a log entry, a running flag or an end    *)
(* time written by another run.                                            *)
(***************************************************************************)
C6_FreshAtStart ==
    RunStarts =>
        /\ DOMAIN executionState'.taskResults = SeqToSet(executionState'.executionOrder)
        /\ \A n \in DOMAIN executionState'.taskResults :
              executionState'.taskResults[n].status = "pending"
        /\ ~executionState'.hasEndTime

C6_NoForeignWrite ==
    hist.owner # 0 =>
        /\ \A n \in DOMAIN executionState.taskResults :
              executionState.taskResults[n].by = hist.owner
        /\ executionState.logs \subseteq {0, hist.owner}
        /\ hist.runningBy \in {0, hist.owner}
        /\ executionState.hasEndTime => hist.endBy = hist.owner

C6_FreshState == [][C6_FreshAtStart /\ C6_NoForeignWrite']_vars

(***************************************************************************)
(* C8: while the paused flag of the ExecutionState is set, no node is      *)
(* marked running.                                                         *)
(***************************************************************************)
C8_PauseHolds ==
    [][executionState.isPaused =>
          \A i \in DOMAIN nodes : ~MarkedRunning(nodes[i].id)]_vars

(***************************************************************************)
(* C4 as stated: after Stop has aborted a run, and as long as no reset and *)
(* no new run replaces its ExecutionState, every node of its order that    *)
(* had not started keeps its status (so none is marked running).           *)
(***************************************************************************)
\* Positions of the order of run r whose node has not been started.
NotStarted(r) ==
    {k \in DOMAIN runs[r].order :
        \/ k > runs[r].idx
        \/ k = runs[r].idx /\ runs[r].pc \in {"pausePoll", "pauseSleep"}}

C4_StopFreezes ==
    [][(~RunStarts /\ ~ResetHappens) =>
          \A r \in ActiveRuns :
              (runs[r].aborted /\ hist.owner = r) =>
                  \A k \in NotStarted(r) :
                      StatusOf(nodes', runs[r].order[k]) = StatusOf(nodes, runs[r].order[k])]_vars

(***************************************************************************)
(* C4 amended: the loop of an aborted run starts no further node; the node *)
(* in flight may complete, and a step of that loop leaves every node it    *)
(* had not started as it is, except that when the node in flight fails the *)
(* loop marks the remaining nodes of its order skipped before it ends.     *)
(***************************************************************************)
C4_StopAmended ==
    [][\A r \in RunIds :
          (runs[r].aborted /\ LoopStep(r)) =>
              /\ runs'[r].pc # "exec"
              /\ \A k \in NotStarted(r) :
                    LET n == runs[r].order[k] IN
                    \/ StatusOf(nodes', n) = StatusOf(nodes, n)
                    \/ /\ StatusOf(nodes', n) = "skipped"
                       /\ runs[r].pc = "exec"
                       /\ StatusOf(nodes', runs[r].order[runs[r].idx]) = "failed"
                       /\ runs'[r].pc = "done"]_vars

\* A single run that was cancelled while its first node was in flight: the
\* node completed and the second node was left pending.
C4_Witness ==
    /\ runCount = 1
    /\ ActiveRuns = {}
    /\ Len(executionState.executionOrder) = 2
    /\ ResultStatus(executionState, executionState.executionOrder[1]) = "success"
    /\ ResultStatus(executionState, executionState.executionOrder[2]) = "pending"
    /\ StatusOf(nodes, executionState.executionOrder[2]) = "pending"
    /\ executionState.hasEndTime

(***************************************************************************)
(* C7 as stated: no node is marked running while one of its dependsOn      *)
(* sources has a status other than success.                                *)
(***************************************************************************)
DependsOnSources(es, n) ==
    {es[i].source : i \in {j \in DOMAIN es : es[j].kind = "dependsOn" /\ es[j].target = n}}

RunEnds(r) == r \in ActiveRuns /\ runs'[r].pc = "done"

C9_EndStamps ==
    \A r \in RunIds :
        RunEnds(r) =>
            /\ ~executionState'.isRunning
            /\ executionState'.hasEndTime
            /\ abortControllerRef' = 0

C9_RunEnds ==
    /\ [][C9_EndStamps]_vars
    /\ (<>[](~executionState.isPaused)) =>
          \A r \in RunIds : (r \in ActiveRuns) ~> (runs[r].pc = "done")

\* A run has ended by cancellation, with nodes of its order left pending.
C9_Witness ==
    /\ \E r \in RunIds : runs[r].pc = "done"
    /\ ActiveRuns = {}
    /\ ~executionState.isRunning
    /\ executionState.hasEndTime
    /\ abortControllerRef = 0
    /\ \E n \in DOMAIN executionState.taskResults :
          executionState.taskResults[n].status = "pending"

(***************************************************************************)
(* Connection validation (graphUtils.ts).                                  *)
(***************************************************************************)
Connection(source, target) == [source |-> source, target |-> target]

\* The adjacency map of wouldCreateCycle: every edge whose source is a
\* known node, whatever its kind, plus the proposed connection.
CycleAdjacency(ns, es, conn) ==
    [n \in SeqToSet(MapIds(ns)) |->
        {es[i].target : i \in {j \in DOMAIN es : es[j].source = n}}
            \cup (IF conn.source = n THEN {conn.target} ELSE {})]

RECURSIVE hasCycleDFS(_, _, _, _)
RECURSIVE VisitNeighbors(_, _, _, _)

\* The for loop over the neighbours of one node; the result carries the
\* visited set, which the code shares between the calls.
VisitNeighbors(todo, visited, recursionStack, adjacency) ==
    IF todo = {} THEN [found |-> FALSE, visited |-> visited]
    ELSE LET neighbor == CHOOSE x \in todo : TRUE IN
         IF neighbor \notin visited
         THEN LET r == hasCycleDFS(neighbor, visited, recursionStack, adjacency)
              IN IF r.found THEN r
                 ELSE VisitNeighbors(todo \ {neighbor}, r.visited, recursionStack, adjacency)
         ELSE IF neighbor \in recursionStack
              THEN [found |-> TRUE, visited |-> visited]
              ELSE VisitNeighbors(todo \ {neighbor}, visited, recursionStack, adjacency)

hasCycleDFS(nodeId, visited, recursionStack, adjacency) ==
    VisitNeighbors(IF nodeId \in DOMAIN adjacency THEN adjacency[nodeId] ELSE {},
                   visited \cup {nodeId}, recursionStack \cup {nodeId}, adjacency)

\* for (const node of nodes) if (!visited.has(node.id)) ...
RECURSIVE CycleFromEach(_, _, _)
CycleFromEach(ids, visited, adjacency) ==
    IF ids = <<>> THEN FALSE
    ELSE IF Head(ids) \in visited
         THEN CycleFromEach(Tail(ids), visited, adjacency)
         ELSE LET r == hasCycleDFS(Head(ids), visited, {}, adjacency)
              IN r.found \/ CycleFromEach(Tail(ids), r.visited, adjacency)

wouldCreateCycle(ns, es, conn) ==
    IF conn.source = conn.target THEN TRUE
    ELSE CycleFromEach(MapIds(ns), {}, CycleAdjacency(ns, es, conn))

isDuplicateEdge(es, conn) ==
    \E i \in DOMAIN es : es[i].source = conn.source /\ es[i].target = conn.target

\* A validation that leaves the self-loop to the cycle check.
validateConnectionNoSelfCheck(ns, es, conn) ==
    IF isDuplicateEdge(es, conn)
    THEN [valid |-> FALSE, message |-> "This dependency already exists"]
    ELSE IF wouldCreateCycle(ns, es, conn)
         THEN [valid |-> FALSE, message |-> "This would create a circular dependency"]
         ELSE [valid |-> TRUE, message |-> ""]

validateConnection(ns, es, conn) ==
    IF conn.source = conn.target
    THEN [valid |-> FALSE, message |-> "Cannot connect a task to itself"]
    ELSE IF isDuplicateEdge(es, conn)
         THEN [valid |-> FALSE, message |-> "This dependency already exists"]
         ELSE IF wouldCreateCycle(ns, es, conn)
              THEN [valid |-> FALSE, message |-> "This would create a circular dependency"]
              ELSE [valid |-> TRUE, message |-> ""]

\* addEdge of the React Flow library: an edge whose source and target
\* repeat those of an existing edge is not added.
addEdge(edge, es) ==
    IF \E i \in DOMAIN es : es[i].source = edge.source /\ es[i].target = edge.target
    THEN es
    ELSE Append(es, edge)

(***************************************************************************)
(* The edit handlers of the canvas component.                              *)
(***************************************************************************)
RunVarsUnchanged ==
    UNCHANGED <<executionState, abortControllerRef, runs, runCount, hist,
                orderArgs, orderOut, variables, call,
                   variableIdCounter, groups>>

ExistingIds == SeqToSet(MapIds(nodes))

ExistingEdgeIds == {edges[i].id : i \in DOMAIN edges}

\* onDrop (part_010:695-733) with generateNodeId (part_010:69-72)
onDrop ==
    /\ nodeIdCounter < InitialNodeIdCounter + MaxDrops
    /\ nodeIdCounter' = nodeIdCounter + 1
    /\ nodes' = Append(nodes, Node(nodeIdCounter + 1, TRUE, TRUE))
    /\ UNCHANGED edges
    /\ RunVarsUnchanged

\* handleNodeDelete (part_010:264-278)
handleNodeDelete(nodeId) ==
    /\ nodes' = SelectSeq(nodes, LAMBDA n : n.id # nodeId)
    /\ edges' = SelectSeq(edges, LAMBDA e : e.source # nodeId /\ e.target # nodeId)
    /\ UNCHANGED nodeIdCounter
    /\ RunVarsUnchanged

\* handleDeleteSelected (part_010:283-296)
handleDeleteSelected(selectedNodeIds) ==
    /\ nodes' = SelectSeq(nodes, LAMBDA n : n.id \notin selectedNodeIds)
    /\ edges' = SelectSeq(edges, LAMBDA e : e.source \notin selectedNodeIds
                                            /\ e.target \notin selectedNodeIds)
    /\ UNCHANGED nodeIdCounter
    /\ RunVarsUnchanged

\* onConnect (part_010:301-329)
onConnect(source, target) ==
    /\ Len(edges) < MaxEditEdges
    /\ IF validateConnection(nodes, edges, Connection(source, target)).valid
       THEN edges' = addEdge(Edge(source, target, "dependsOn"), edges)
       ELSE UNCHANGED edges
    /\ UNCHANGED <<nodes, nodeIdCounter>>
    /\ RunVarsUnchanged

\* handleNodeUpdate with a dependsOn update (part_010:219-259)
handleNodeUpdate(nodeId, newDependsOn) ==
    /\ nodes' = [i \in DOMAIN nodes |->
                    IF nodes[i].id = nodeId
                    THEN [nodes[i] EXCEPT !.dependsOn = newDependsOn]
                    ELSE nodes[i]]
    /\ LET filtered == SelectSeq(edges,
                           LAMBDA e : ~(e.target = nodeId /\ e.kind = "dependsOn"))
           newEdges == [i \in DOMAIN newDependsOn |->
                           Edge(newDependsOn[i], nodeId, "dependsOn")]
       IN /\ Len(filtered) + Len(newEdges) <= MaxEditEdges
          /\ edges' = filtered \o newEdges
    /\ UNCHANGED nodeIdCounter
    /\ RunVarsUnchanged

\* The NodePicker of the property panel adds a selectable node to the
\* dependsOn list of the selected node (part_013:34-41, part_015:66-83).
PickerAdd(nodeId, pick) ==
    LET value == NodeById(nodes, nodeId).dependsOn IN
    /\ pick # nodeId
    /\ pick \notin SeqToSet(value)
    /\ handleNodeUpdate(nodeId, Append(value, pick))

\* The NodePicker removes an entry of the list (part_013:43-45).
PickerRemove(nodeId, pick) ==
    LET value == NodeById(nodes, nodeId).dependsOn IN
    /\ pick \in SeqToSet(value)
    /\ handleNodeUpdate(nodeId, SelectSeq(value, LAMBDA id : id # pick))

\* handleEdgeUpdate (part_010:334-352), called by the edge panel with a
\* relation kind (part_014:183-188)
handleEdgeUpdate(edgeId, dependencyType) ==
    /\ edges' = [i \in DOMAIN edges |->
                    IF edges[i].id = edgeId
                    THEN [edges[i] EXCEPT !.kind = dependencyType]
                    ELSE edges[i]]
    /\ UNCHANGED <<nodes, nodeIdCounter>>
    /\ RunVarsUnchanged

\* handleEdgeDelete (part_010:357-363)
handleEdgeDelete(edgeId) ==
    /\ edges' = SelectSeq(edges, LAMBDA e : e.id # edgeId)
    /\ UNCHANGED <<nodes, nodeIdCounter>>
    /\ RunVarsUnchanged

\* The canvas starts from two nodes joined by one dependsOn edge, as the
\* sample graph starts from nodes whose data carry no dependsOn list.
InitEdit ==
    /\ nodes = <<Node(1, TRUE, TRUE), Node(2, TRUE, TRUE)>>
    /\ edges = <<Edge(1, 2, "dependsOn")>>
    /\ executionState = createInitialExecutionState
    /\ abortControllerRef = 0
    /\ runs = [r \in RunIds |-> NoRun]
    /\ runCount = 0
    /\ hist = InitHist
    /\ nodeIdCounter = InitialNodeIdCounter
    /\ orderArgs = [called |-> FALSE, targetTaskIds |-> <<>>]
    /\ orderOut = <<>>
    /\ variables = systemVariables
    /\ variableIdCounter = 0
    /\ groups = <<>>
    /\ call = NoFunctionCall

NextEdit ==
    \/ onDrop
    \/ \E nodeId \in ExistingIds : handleNodeDelete(nodeId)
    \/ \E selectedNodeIds \in SUBSET ExistingIds :
          Cardinality(selectedNodeIds) >= 2 /\ handleDeleteSelected(selectedNodeIds)
    \/ \E source \in ExistingIds, target \in ExistingIds : onConnect(source, target)
    \/ \E nodeId \in ExistingIds, pick \in ExistingIds : PickerAdd(nodeId, pick)
    \/ \E nodeId \in ExistingIds, pick \in NodeIds \cup ExistingIds : PickerRemove(nodeId, pick)
    \/ \E edgeId \in ExistingEdgeIds, dependencyType \in DependencyType :
          handleEdgeUpdate(edgeId, dependencyType)
    \/ \E edgeId \in ExistingEdgeIds : handleEdgeDelete(edgeId)

SpecEdit == InitEdit /\ [][NextEdit]_vars

(***************************************************************************)
(* C10: after any sequence of graph edits the dependsOn edges of the graph *)
(* contain no cycle.                                                       *)
(***************************************************************************)
C10_NoDependsOnCycle == ~HasCycle(DependsOnPairs(edges))

(***************************************************************************)
(* validateConnection applied to bounded graphs.                           *)
(***************************************************************************)
ValidateNodeIds == 1..MaxValidateNodes

\* The edges a graph may hold between two different nodes: a hard
\* dependency or an advisory relation.
ValidateEdgeChoices ==
    {Edge(p[1], p[2], k) :
        p \in {q \in ValidateNodeIds \X ValidateNodeIds : q[1] # q[2]},
        k \in {"dependsOn", "mustRunAfter"}}

InitValidate ==
    /\ nodes = [i \in ValidateNodeIds |-> Node(i, TRUE, TRUE)]
    /\ edges \in BoundedSeqs(ValidateEdgeChoices, MaxValidateEdges)
    /\ executionState = createInitialExecutionState
    /\ abortControllerRef = 0
    /\ runs = [r \in RunIds |-> NoRun]
    /\ runCount = 0
    /\ hist = InitHist
    /\ nodeIdCounter = InitialNodeIdCounter
    /\ orderArgs = NoCall
    /\ orderOut = <<>>
    /\ variables = systemVariables
    /\ variableIdCounter = 0
    /\ groups = <<>>
    /\ call = NoFunctionCall

\* validateConnection(nodes, edges, connection), with the answer of the
\* cycle check it contains.
CallValidateConnection(source, target) ==
    /\ call.fn = "none"
    /\ call' = [fn |-> "validateConnection",
                connection |-> Connection(source, target),
                validation |-> validateConnection(nodes, edges, Connection(source, target)),
                cycle |-> wouldCreateCycle(nodes, edges, Connection(source, target))]
    /\ UNCHANGED <<nodes, edges, executionState, abortControllerRef, runs, runCount,
                   hist, nodeIdCounter, orderArgs, orderOut, variables,
                   variableIdCounter, groups>>

NextValidate ==
    \E source \in ValidateNodeIds, target \in ValidateNodeIds :
        CallValidateConnection(source, target)

SpecValidate == InitValidate /\ [][NextValidate]_vars

(***************************************************************************)
(* C11: the cycle check rejects a proposed edge exactly when the dependsOn *)
(* edges of the graph hold a path from the edge's target back to its       *)
(* source; edges of the advisory kinds take no part.                       *)
(***************************************************************************)
C11_CycleCheckIffHardPath ==
    call.fn = "validateConnection" =>
        (call.cycle <=>
            call.connection.source \in
                ReachFrom({call.connection.target}, DependsOnPairs(edges)))

(***************************************************************************)
(* C12: validateConnection rejects a proposed edge whose source equals its *)
(* target with the self-loop message, and a proposed edge whose (source,   *)
(* target) pair already exists with the duplicate message, whatever the    *)
(* cycle check says.                                                       *)
(***************************************************************************)
C12_SelfLoopAndDuplicate ==
    call.fn = "validateConnection" =>
        /\ call.connection.source = call.connection.target =>
              call.validation = [valid |-> FALSE,
                                 message |-> "Cannot connect a task to itself"]
        /\ (/\ call.connection.source # call.connection.target
            /\ \E i \in DOMAIN edges :
                  /\ edges[i].source = call.connection.source
                  /\ edges[i].target = call.connection.target) =>
              call.validation = [valid |-> FALSE,
                                 message |-> "This dependency already exists"]

\* A duplicate of an edge that lies on a cycle was proposed: the cycle
\* check says yes, the validation reports the duplicate.
C12_Witness ==
    /\ call.fn = "validateConnection"
    /\ call.cycle
    /\ call.connection.source # call.connection.target
    /\ call.validation.message = "This dependency already exists"

(***************************************************************************)
(* C13: after any sequence of edits no two edges of the graph have the     *)
(* same (source, target, relation kind) tuple.                             *)
(***************************************************************************)
C13_UniqueEdgeTuples ==
    \A i, j \in DOMAIN edges :
        i # j => <<edges[i].source, edges[i].target, edges[i].kind>>
                     # <<edges[j].source, edges[j].target, edges[j].kind>>

(***************************************************************************)
(* C14: after any sequence of edits the source and the target of every     *)
(* edge are nodes of the graph.                                            *)
(***************************************************************************)
C14_NoDanglingEdge ==
    \A i \in DOMAIN edges :
        edges[i].source \in ExistingIds /\ edges[i].target \in ExistingIds

(***************************************************************************)
(* C15: when a target set is requested, the result of getExecutionOrder    *)
(* holds exactly the requested enabled nodes and their transitive          *)
(* predecessors along dependsOn edges between enabled nodes, each once.    *)
(***************************************************************************)
\* The dependsOn edges between enabled nodes, as pairs.
EnabledDependsOnPairs ==
    {p \in DependsOnPairs(edges) :
        p[1] \in enabledNodeIds(nodes) /\ p[2] \in enabledNodeIds(nodes)}

\* The requested enabled nodes and everything they depend on.
MinimalClosure(targetTaskIds) ==
    {n \in enabledNodeIds(nodes) :
        \E t \in SeqToSet(targetTaskIds) \cap enabledNodeIds(nodes) :
            n = t \/ t \in Successors(n, EnabledDependsOnPairs)}

C15_MinimalClosure ==
    (orderArgs.called /\ Len(orderArgs.targetTaskIds) > 0) =>
        /\ SeqToSet(orderOut) = MinimalClosure(orderArgs.targetTaskIds)
        /\ Len(orderOut) = Cardinality(MinimalClosure(orderArgs.targetTaskIds))

(***************************************************************************)
(* C16: if the dependsOn edges contain a cycle, the result of              *)
(* getExecutionOrder still holds every required enabled node exactly once. *)
(***************************************************************************)
C16_CycleFallback ==
    (orderArgs.called /\ HasCycle(DependsOnPairs(edges))) =>
        /\ SeqToSet(orderOut) = RequiredNodes(nodes, edges, orderArgs.targetTaskIds)
        /\ Len(orderOut) = Cardinality(RequiredNodes(nodes, edges, orderArgs.targetTaskIds))

(***************************************************************************)
(* Task conditions: conditionUtils.ts.  Strings are the few values the     *)
(* conditions below mention; trim and toLowerCase are given on those.      *)
(***************************************************************************)
\* The largest number of atomic conditions in one task condition.
MaxConditions == 2

simulatedEnvVars == [name \in {"CI", "DEBUG"} |-> IF name = "CI" THEN "false" ELSE "true"]

Condition(leftSource, leftValue, operator, rightSource, rightValue) ==
    [leftSource |-> leftSource, leftValue |-> leftValue, operator |-> operator,
     rightSource |-> rightSource, rightValue |-> rightValue]

trim(s) == IF s = " " THEN "" ELSE s

toLowerCase(s) == IF s = "TRUE" THEN "true" ELSE IF s = "FALSE" THEN "false" ELSE s

\* variables.find((v) => v.name === value)?.value ?? '', and the lookups
\* of the other sources.
resolveValue(source, value, vs) ==
    IF source = "variable"
    THEN IF \E i \in DOMAIN vs : vs[i].name = value
         THEN LET first == CHOOSE i \in DOMAIN vs :
                              /\ vs[i].name = value
                              /\ \A j \in DOMAIN vs : vs[j].name = value => i <= j
              IN  vs[first].value
         ELSE ""
    ELSE IF source = "environment"
    THEN IF value \in DOMAIN simulatedEnvVars THEN simulatedEnvVars[value] ELSE ""
    ELSE value

evaluateCondition(condition, vs) ==
    LET leftValue == resolveValue(condition.leftSource, condition.leftValue, vs)
        rightValue == IF condition.rightSource # "undefined" /\ condition.rightValue # ""
                      THEN resolveValue(condition.rightSource, condition.rightValue, vs)
                      ELSE ""
    IN  CASE condition.operator = "equals" -> leftValue = rightValue
          [] condition.operator = "notEquals" -> leftValue # rightValue
          [] condition.operator = "isEmpty" -> trim(leftValue) = ""
          [] condition.operator = "isNotEmpty" -> trim(leftValue) # ""
          [] condition.operator = "isTrue" ->
                 toLowerCase(leftValue) = "true" \/ leftValue = "1"
          [] condition.operator = "isFalse" ->
                 toLowerCase(leftValue) = "false" \/ leftValue = "0" \/ leftValue = ""
          [] OTHER -> FALSE

\* A task condition; defined = FALSE stands for node.data.condition being
\* undefined.
TaskCondition(type, logic, conditions) ==
    [defined |-> TRUE, type |-> type, logic |-> logic, conditions |-> conditions]

UndefinedCondition ==
    [defined |-> FALSE, type |-> "onlyIf", logic |-> "and", conditions |-> <<>>]

evaluateTaskCondition(taskCondition, vs) ==
    IF Len(taskCondition.conditions) = 0
    THEN taskCondition.type = "onlyIf"
    ELSE LET results == [i \in DOMAIN taskCondition.conditions |->
                            evaluateCondition(taskCondition.conditions[i], vs)]
         IN  IF taskCondition.logic = "and"
             THEN \A i \in DOMAIN results : results[i]
             ELSE \E i \in DOMAIN results : results[i]

\* The mutant of shouldExecuteTask: skipIf is treated like onlyIf.
shouldExecuteTaskNoNegation(condition, vs) ==
    IF ~condition.defined \/ Len(condition.conditions) = 0
    THEN [execute |-> TRUE, reason |-> "undefined"]
    ELSE LET conditionResult == evaluateTaskCondition(condition, vs)
         IN  [execute |-> conditionResult,
              reason |-> IF conditionResult THEN "undefined"
                         ELSE "Condition not met (onlyIf evaluated to false)"]

shouldExecuteTask(condition, vs) ==
    IF ~condition.defined \/ Len(condition.conditions) = 0
    THEN [execute |-> TRUE, reason |-> "undefined"]
    ELSE LET conditionResult == evaluateTaskCondition(condition, vs)
         IN  IF condition.type = "onlyIf"
             THEN [execute |-> conditionResult,
                   reason |-> IF conditionResult THEN "undefined"
                              ELSE "Condition not met (onlyIf evaluated to false)"]
             ELSE [execute |-> ~conditionResult,
                   reason |-> IF conditionResult
                              THEN "Skipped due to skipIf condition"
                              ELSE "undefined"]

\* The atomic conditions the calls are made with.
ConditionChoices ==
    { Condition("variable", "version", "equals", "literal", "1.0.0"),
      Condition("variable", "version", "notEquals", "literal", "1.0.0"),
      Condition("variable", "missing", "isEmpty", "undefined", ""),
      Condition("literal", " ", "isNotEmpty", "undefined", ""),
      Condition("environment", "DEBUG", "isTrue", "undefined", ""),
      Condition("literal", "TRUE", "isFalse", "undefined", "") }

TaskConditionChoices ==
    {UndefinedCondition} \cup
    { TaskCondition(type, logic, conditions) :
        type \in {"onlyIf", "skipIf"}, logic \in {"and", "or"},
        conditions \in BoundedSeqs(ConditionChoices, MaxConditions) }

InitCondition ==
    /\ Init
    /\ nodes = [i \in NodeIds |-> Node(i, TRUE, TRUE)]

CallShouldExecuteTask(condition) ==
    /\ call' = [fn |-> "shouldExecuteTask", condition |-> condition,
                result |-> shouldExecuteTask(condition, variables)]
    /\ UNCHANGED <<nodes, edges, executionState, abortControllerRef, runs,
                   runCount, hist, nodeIdCounter, orderArgs, orderOut, variables,
                   variableIdCounter, groups>>

NextCondition ==
    \E condition \in TaskConditionChoices : CallShouldExecuteTask(condition)

SpecCondition == InitCondition /\ [][NextCondition]_vars

(***************************************************************************)
(* C17: shouldExecuteTask says "execute" when no condition is attached or  *)
(* the list is empty; otherwise it combines the atomic results with AND or *)
(* OR, executes on a true result for onlyIf and on a false result for      *)
(* skipIf, and gives a reason exactly when it says "do not execute".       *)
(***************************************************************************)
C17_ShouldExecute ==
    call.fn = "shouldExecuteTask" =>
        LET c == call.condition
            atoms == {evaluateCondition(c.conditions[i], variables) :
                         i \in DOMAIN c.conditions}
            combined == IF c.logic = "and" THEN atoms = {TRUE} ELSE TRUE \in atoms
        IN  /\ (~c.defined \/ c.conditions = <<>>) => call.result.execute
            /\ (c.defined /\ c.conditions # <<>>) =>
                   call.result.execute = (IF c.type = "onlyIf" THEN combined
                                          ELSE ~combined)
            /\ (call.result.reason # "undefined") <=> ~call.result.execute

\* A skipIf condition of two atoms joined by "or", one true and one false,
\* has made the task skip.
C17_Witness ==
    /\ call.fn = "shouldExecuteTask"
    /\ call.condition.defined
    /\ call.condition.type = "skipIf"
    /\ call.condition.logic = "or"
    /\ Len(call.condition.conditions) = 2
    /\ \E i, j \in DOMAIN call.condition.conditions :
          /\ evaluateCondition(call.condition.conditions[i], variables)
          /\ ~evaluateCondition(call.condition.conditions[j], variables)
    /\ ~call.result.execute
    /\ call.result.reason = "Skipped due to skipIf condition"

(***************************************************************************)
(* Variable references: variableUtils.ts.  A text, a variable name and a   *)
(* variable value are sequences of one-character strings here, so that the *)
(* scan of VARIABLE_PATTERN works on characters.                           *)
(***************************************************************************)
\* The largest number of pieces a text is put together from, and of
\* variables in a call.
MaxChunks == 2
MaxVariables == 2

\* [a-zA-Z_] and [a-zA-Z0-9_] on the characters in use.
IsIdentStart(c) == c \in {"a", "b", "_"}

IsIdentPart(c) == IsIdentStart(c) \/ c \in {"1"}

\* The first position from k on that holds no identifier character.
RECURSIVE IdentEnd(_, _)
IdentEnd(text, k) ==
    IF k > Len(text) \/ ~IsIdentPart(text[k]) THEN k ELSE IdentEnd(text, k + 1)

\* VARIABLE_PATTERN tried at position i: the position of the closing brace
\* of the match, 0 if there is no match at i.
VARIABLE_PATTERN(text, i) ==
    IF /\ i + 3 <= Len(text)
       /\ text[i] = "$"
       /\ text[i + 1] = "{"
       /\ IsIdentStart(text[i + 2])
    THEN LET k == IdentEnd(text, i + 3)
         IN  IF k <= Len(text) /\ text[k] = "}" THEN k ELSE 0
    ELSE 0

\* new Map(variables.map((v) => [v.name, v.value])): a later entry of the
\* same name overwrites the value.
variableMapHas(vs, varName) == \E j \in DOMAIN vs : vs[j].name = varName

\* The mutant of variableMapGet: the name instead of the value.
variableMapGetName(vs, varName) == varName

variableMapGet(vs, varName) ==
    LET last == CHOOSE j \in DOMAIN vs :
                    /\ vs[j].name = varName
                    /\ \A k \in DOMAIN vs : vs[k].name = varName => k <= j
    IN  vs[last].value

\* text.replace(VARIABLE_PATTERN, callback) from position i on, with what
\* has been produced so far.
RECURSIVE ReplaceFrom(_, _, _, _)
ReplaceFrom(text, vs, i, acc) ==
    IF i > Len(text) THEN acc
    ELSE LET e == VARIABLE_PATTERN(text, i)
         IN  IF e = 0
             THEN ReplaceFrom(text, vs, i + 1,
                      [acc EXCEPT !.resolved = @ \o <<text[i]>>])
             ELSE LET varName == SubSeq(text, i + 2, e - 1)
                  IN  IF variableMapHas(vs, varName)
                      THEN ReplaceFrom(text, vs, e + 1,
                               [acc EXCEPT !.resolved = @ \o variableMapGet(vs, varName)])
                      ELSE ReplaceFrom(text, vs, e + 1,
                               [resolved |-> acc.resolved \o SubSeq(text, i, e),
                                unresolvedVars |-> Append(acc.unresolvedVars, varName)])

resolveVariables(text, vs) ==
    ReplaceFrom(text, vs, 1, [resolved |-> <<>>, unresolvedVars |-> <<>>])

\* The pieces the texts are put together from: two references, a reference
\* whose name starts with a digit, an unfinished reference, plain characters.
TextChunks ==
    { <<"$", "{", "a", "}">>, <<"$", "{", "b", "1", "}">>,
      <<"$", "{", "1", "a", "}">>, <<"$", "{", "a">>, <<"/">>, <<"}">>, <<"$">> }

RECURSIVE Flatten(_)
Flatten(seqs) ==
    IF seqs = <<>> THEN <<>> ELSE Head(seqs) \o Flatten(Tail(seqs))

Texts ==
    {Flatten(chunks) : chunks \in UNION {[1..k -> TextChunks] : k \in 0..MaxChunks}}

\* The declarations in use: a plain value, a value that looks like a
\* reference, an empty value, a second name.
VariableChoices ==
    { [name |-> <<"a">>, value |-> <<"1">>],
      [name |-> <<"a">>, value |-> <<"$", "{", "b", "1", "}">>],
      [name |-> <<"b", "1">>, value |-> <<>>] }

\* A call that has not been made yet, with its arguments.
ResolveCall(text, vs) ==
    [fn |-> "resolveVariables", called |-> FALSE, text |-> text, variables |-> vs,
     result |-> [resolved |-> <<>>, unresolvedVars |-> <<>>]]

InitResolve ==
    /\ nodes = [i \in NodeIds |-> Node(i, TRUE, TRUE)]
    /\ edges = ChainEdges
    /\ executionState = createInitialExecutionState
    /\ abortControllerRef = 0
    /\ runs = [r \in RunIds |-> NoRun]
    /\ runCount = 0
    /\ hist = InitHist
    /\ nodeIdCounter = InitialNodeIdCounter
    /\ orderArgs = NoCall
    /\ orderOut = <<>>
    /\ variables = systemVariables
    /\ variableIdCounter = 0
    /\ groups = <<>>
    /\ \E text \in Texts, vs \in BoundedSeqs(VariableChoices, MaxVariables) :
          call = ResolveCall(text, vs)

CallResolveVariables ==
    /\ call.fn = "resolveVariables"
    /\ ~call.called
    /\ call' = [call EXCEPT !.called = TRUE,
                            !.result = resolveVariables(call.text, call.variables)]
    /\ UNCHANGED <<nodes, edges, executionState, abortControllerRef, runs,
                   runCount, hist, nodeIdCounter, orderArgs, orderOut, variables,
                   variableIdCounter, groups>>

NextResolve == CallResolveVariables

SpecResolve == InitResolve /\ [][NextResolve]_vars

(***************************************************************************)
(* C18: resolveVariables replaces every ${name} of a declared name by the  *)
(* value of the variable of that name, leaves every other character of the *)
(* text, the references to undeclared names included, as it is, and        *)
(* reports exactly the referenced names that have no declaration.          *)
(***************************************************************************)
\* The references in a text: <<i, e>> with "$" at i and "}" at e.
References(text) ==
    { o \in (1..Len(text)) \X (1..Len(text)) :
        /\ o[1] + 3 <= o[2]
        /\ text[o[1]] = "$"
        /\ text[o[1] + 1] = "{"
        /\ text[o[2]] = "}"
        /\ IsIdentStart(text[o[1] + 2])
        /\ \A k \in (o[1] + 2)..(o[2] - 1) : IsIdentPart(text[k]) }

ReferenceName(text, o) == SubSeq(text, o[1] + 2, o[2] - 1)

\* What position p of the text contributes to the resolved text, when the
\* declarations with the indices in chosen give the values.
ResolvedPiece(text, vs, chosen, p) ==
    LET declared == {o \in References(text) :
                        \E j \in DOMAIN vs : vs[j].name = ReferenceName(text, o)}
    IN  IF \E o \in declared : o[1] = p
        THEN LET o == CHOOSE o \in declared : o[1] = p
                 j == CHOOSE j \in chosen : vs[j].name = ReferenceName(text, o)
             IN  vs[j].value
        ELSE IF \E o \in declared : o[1] < p /\ p <= o[2]
        THEN <<>>
        ELSE <<text[p]>>

C18_ResolveVariables ==
    (call.fn = "resolveVariables" /\ call.called) =>
        LET text == call.text
            vs == call.variables
        IN  /\ SeqToSet(call.result.unresolvedVars) =
                   { ReferenceName(text, o) : o \in
                       {o \in References(text) :
                           \A j \in DOMAIN vs : vs[j].name # ReferenceName(text, o)} }
            /\ \E chosen \in SUBSET DOMAIN vs :
                  /\ \A j \in DOMAIN vs :
                        Cardinality({k \in chosen : vs[k].name = vs[j].name}) = 1
                  /\ call.result.resolved =
                        Flatten([p \in 1..Len(text) |->
                                    ResolvedPiece(text, vs, chosen, p)])

\* A text with a declared and an undeclared reference has been resolved.
C18_Witness ==
    /\ call.fn = "resolveVariables"
    /\ call.called
    /\ call.text = <<"$", "{", "a", "}", "$", "{", "b", "1", "}">>
    /\ call.variables = << [name |-> <<"a">>, value |-> <<"1">>] >>
    /\ call.result.resolved = <<"1", "$", "{", "b", "1", "}">>
    /\ call.result.unresolvedVars = << <<"b", "1">> >>

(***************************************************************************)
(* The Script Parser: gradleImport.ts.  A script is the sequence of its    *)
(* task registrations; a task name and a node id are sequences of          *)
(* one-character strings.                                                  *)
(***************************************************************************)
\* The largest number of task registrations in a script.
MaxTasks == 2

\* [a-zA-Z0-9] on the characters in use.
IsAlphaNumeric(c) == c \in {"a", "b", "0", "1"}

\* `task_${name.replace(/[^a-zA-Z0-9]/g, '_')}`
TaskId(name) ==
    <<"t", "a", "s", "k", "_">> \o
        [i \in DOMAIN name |-> IF IsAlphaNumeric(name[i]) THEN name[i] ELSE "_"]

\* A node and an edge of a graph that carries task names and kinds.
TaskNode(id, taskName, taskType, enabled) ==
    [id |-> id, taskName |-> taskName, taskType |-> taskType, enabled |-> enabled]

\* `${sourceId}-${task.id}` for dependsOn, with the kind appended otherwise
ImportEdge(source, target, kind) ==
    [id |-> IF kind = "dependsOn" THEN <<source, target>> ELSE <<source, target, kind>>,
     source |-> source, target |-> target, kind |-> kind]

\* TASK_TYPE_MAP[class] || 'Custom'
TASK_TYPE_MAP(class) ==
    IF class \in {"Exec", "Copy", "Delete", "Zip", "Jar", "Test", "JavaCompile",
                  "ProcessResources"}
    THEN class ELSE "Custom"

\* The names in the calls of one method in a block body, in body order.
parseTaskReferences(body, method) ==
    LET calls == SelectSeq(body, LAMBDA c : c.method = method)
    IN  [i \in DOMAIN calls |-> calls[i].name]

parseTaskBody(name, type, body) ==
    [id |-> TaskId(name), name |-> name, type |-> type,
     dependsOn |-> parseTaskReferences(body, "dependsOn"),
     mustRunAfter |-> parseTaskReferences(body, "mustRunAfter"),
     shouldRunAfter |-> parseTaskReferences(body, "shouldRunAfter"),
     finalizedBy |-> parseTaskReferences(body, "finalizedBy")]

\* taskNameToId.get(name): the id of the last task of that name, <<>> for
\* undefined.
taskNameToId(tasks, name) ==
    IF \E i \in DOMAIN tasks : tasks[i].name = name THEN TaskId(name) ELSE <<>>

\* The edges of one relation of one task; reversed for finalizedBy.
RelationEdges(tasks, task, kind) ==
    LET refs == SelectSeq(task[kind], LAMBDA dep : taskNameToId(tasks, dep) # <<>>)
    IN  [i \in DOMAIN refs |->
            IF kind = "finalizedBy"
            THEN ImportEdge(task.id, taskNameToId(tasks, refs[i]), kind)
            ELSE ImportEdge(taskNameToId(tasks, refs[i]), task.id, kind)]

convertToGraph(tasks) ==
    [nodes |-> [i \in DOMAIN tasks |->
                   TaskNode(tasks[i].id, tasks[i].name, tasks[i].type, TRUE)],
     edges |-> Flatten([i \in DOMAIN tasks |->
                   RelationEdges(tasks, tasks[i], "dependsOn") \o
                   RelationEdges(tasks, tasks[i], "mustRunAfter") \o
                   RelationEdges(tasks, tasks[i], "shouldRunAfter") \o
                   RelationEdges(tasks, tasks[i], "finalizedBy")])]

\* The pattern 1 registrations (with a class) in script order, then the
\* pattern 2 registrations (without a class), turned into a graph; the
\* only warning is the one for an empty task list.
parseGradleKts(script) ==
    LET typed == SelectSeq(script, LAMBDA r : r.type # "none")
        untyped == SelectSeq(script, LAMBDA r : r.type = "none")
        parsedTasks ==
            [i \in DOMAIN typed |->
                parseTaskBody(typed[i].name, TASK_TYPE_MAP(typed[i].type), typed[i].body)] \o
            [i \in DOMAIN untyped |->
                parseTaskBody(untyped[i].name, "Custom", untyped[i].body)]
        graph == convertToGraph(parsedTasks)
    IN  [nodes |-> graph.nodes, edges |-> graph.edges, errors |-> <<>>,
         warnings |-> IF Len(parsedTasks) = 0
                      THEN <<"No tasks found in the Gradle file.">> ELSE <<>>]

\* The task names in use; a script registers a name once.
TaskNames ==
    { <<"a", "b">>, <<"a", "-", "b">>, <<"a", "_", "b">>, <<"1", "0", "1">> }

\* The bodies in use: empty, or one call that names a task.
BodyChoices ==
    {<<>>} \cup
    { <<[method |-> method, name |-> name]>> :
        method \in {"dependsOn", "finalizedBy"}, name \in {<<"a", "b">>, <<"a", "_", "b">>} }

\* Scripts as the sequence of their registrations; the first or the last
\* registration may have a class, the first one may have a body.
Scripts ==
    { [i \in DOMAIN names |-> [name |-> names[i],
                               type |-> IF i = typedAt THEN "Copy" ELSE "none",
                               body |-> IF i = 1 THEN body ELSE <<>>]] :
        names \in BoundedSeqs(TaskNames, MaxTasks), typedAt \in {0, MaxTasks},
        body \in BodyChoices }

ParseCall(script) ==
    [fn |-> "parseGradleKts", called |-> FALSE, script |-> script,
     result |-> [nodes |-> <<>>, edges |-> <<>>, errors |-> <<>>, warnings |-> <<>>]]

InitImport ==
    /\ nodes = <<Node(1, TRUE, TRUE), Node(2, TRUE, TRUE)>>
    /\ edges = <<Edge(1, 2, "dependsOn")>>
    /\ executionState = createInitialExecutionState
    /\ abortControllerRef = 0
    /\ runs = [r \in RunIds |-> NoRun]
    /\ runCount = 0
    /\ hist = InitHist
    /\ nodeIdCounter = InitialNodeIdCounter
    /\ orderArgs = NoCall
    /\ orderOut = <<>>
    /\ variables = systemVariables
    /\ variableIdCounter = 0
    /\ groups = <<>>
    /\ \E script \in Scripts : call = ParseCall(script)

CallParseGradleKts ==
    /\ call.fn = "parseGradleKts"
    /\ ~call.called
    /\ call' = [call EXCEPT !.called = TRUE, !.result = parseGradleKts(call.script)]
    /\ UNCHANGED <<nodes, edges, executionState, abortControllerRef, runs,
                   runCount, hist, nodeIdCounter, orderArgs, orderOut, variables,
                   variableIdCounter, groups>>

NextImport ==
    \/ CallParseGradleKts
    \/ onDrop
    \/ \E nodeId \in ExistingIds : handleNodeDelete(nodeId)

SpecImport == InitImport /\ [][NextImport]_vars

(***************************************************************************)
(* C19: no two nodes of the graph on the canvas, and no two nodes of a     *)
(* graph the Script Parser returns, have the same id; and a node that is   *)
(* added to the canvas gets an id no node of the canvas had before.        *)
(***************************************************************************)
NoDuplicateIds(ns) == \A i, j \in DOMAIN ns : ns[i].id = ns[j].id => i = j

C19_UniqueNodeIds ==
    /\ [](/\ NoDuplicateIds(nodes)
          /\ (call.fn = "parseGradleKts" /\ call.called) =>
                 NoDuplicateIds(call.result.nodes))
    /\ [][\A id \in SeqToSet(MapIds(nodes')) \ SeqToSet(MapIds(nodes)) :
             id > nodeIdCounter /\ id <= nodeIdCounter']_vars

(***************************************************************************)
(* C26: parseGradleKts returns a graph with its warnings: the result has a *)
(* warning whenever the script registers no task, and whenever a call in a *)
(* parsed block names a task that is not among the recovered tasks.        *)
(***************************************************************************)
UnknownReferences(script) ==
    { <<i, k>> \in (DOMAIN script) \X (1..1) :
        /\ k \in DOMAIN script[i].body
        /\ \A j \in DOMAIN script : script[j].name # script[i].body[k].name }

C26_ParseWarnings ==
    (call.fn = "parseGradleKts" /\ call.called) =>
        /\ Len(call.result.nodes) = 0 => Len(call.result.warnings) > 0
        /\ UnknownReferences(call.script) # {} => Len(call.result.warnings) > 0

(***************************************************************************)
(* The variables panel: VariablesPanel.tsx.                                *)
(***************************************************************************)
\* The largest number of variables added in one behaviour.
MaxAddedVariables == 2

\* /^[a-zA-Z_][a-zA-Z0-9_]*$/ on the names in use.
isValidVariableName(name) == name \in {"foo", "bar", "version"}

\* The names typed into the "new variable" field and into the name field
\* of a variable.
NameChoices == {"foo", "bar", "version", "my-var", " "}

\* `var_${++variableIdCounter}_${Date.now()}` for the counter values in use
generateVariableId(counter) == <<"var_1", "var_2", "var_3", "var_4">>[counter]

\* parseVariableValue(value, type).valid on the values and types in use.
parseVariableValue(value, type) ==
    IF type = "number" THEN value \in {"", "7"} ELSE TRUE

VariableUnchanged ==
    UNCHANGED <<nodes, edges, executionState, abortControllerRef, runs, runCount,
                hist, nodeIdCounter, orderArgs, orderOut, call, groups>>

handleAddVariable(newVarName) ==
    /\ variableIdCounter < MaxAddedVariables
    /\ IF \/ trim(newVarName) = ""
          \/ ~isValidVariableName(newVarName)
          \/ \E i \in DOMAIN variables : variables[i].name = newVarName
       THEN UNCHANGED <<variables, variableIdCounter, groups>>
       ELSE /\ variableIdCounter' = variableIdCounter + 1
            /\ variables' = Append(variables,
                   Variable(generateVariableId(variableIdCounter + 1), newVarName, "", FALSE))
    /\ VariableUnchanged

\* handleUpdateVariable(id, { name }): the name field exists for the
\* variables that are not system variables.
handleUpdateVariable(id, name) ==
    /\ \E i \in DOMAIN variables : variables[i].id = id /\ ~variables[i].isSystem
    /\ variables' = [i \in DOMAIN variables |->
                        IF variables[i].id = id
                        THEN [variables[i] EXCEPT !.name = name]
                        ELSE variables[i]]
    /\ UNCHANGED variableIdCounter
    /\ VariableUnchanged

handleValueChange(id, value, varType) ==
    /\ \E i \in DOMAIN variables : variables[i].id = id
    /\ IF parseVariableValue(value, varType)
       THEN variables' = [i \in DOMAIN variables |->
                             IF variables[i].id = id
                             THEN [variables[i] EXCEPT !.value = value]
                             ELSE variables[i]]
       ELSE UNCHANGED variables
    /\ UNCHANGED variableIdCounter
    /\ VariableUnchanged

\* The mutant of handleDeleteVariable: a delete button on every variable.
handleDeleteVariableNoLock(id) ==
    /\ \E i \in DOMAIN variables : variables[i].id = id
    /\ variables' = SelectSeq(variables, LAMBDA v : v.id # id)
    /\ UNCHANGED variableIdCounter
    /\ VariableUnchanged

\* handleDeleteVariable(id): the delete button exists for the variables
\* that are not system variables.
handleDeleteVariable(id) ==
    /\ \E i \in DOMAIN variables : variables[i].id = id /\ ~variables[i].isSystem
    /\ variables' = SelectSeq(variables, LAMBDA v : v.id # id)
    /\ UNCHANGED variableIdCounter
    /\ VariableUnchanged

InitVariables == InitCondition

VariableIds == {variables[i].id : i \in DOMAIN variables}

\* The variables whose value is edited: the added ones and one system one.
ValueEditIds == {id \in VariableIds : id \notin {"sys_project_dir", "sys_build_dir", "sys_group"}}

NextVariables ==
    \/ \E newVarName \in NameChoices : handleAddVariable(newVarName)
    \/ \E id \in VariableIds, name \in NameChoices : handleUpdateVariable(id, name)
    \/ \E id \in ValueEditIds, value \in {"7", "x"}, varType \in {"string", "number"} :
          handleValueChange(id, value, varType)
    \/ \E id \in VariableIds : handleDeleteVariable(id)

SpecVariables == InitVariables /\ [][NextVariables]_vars

(***************************************************************************)
(* C20: after any sequence of add, rename, value-edit and delete           *)
(* operations no two variables, system variables included, have the same   *)
(* name.                                                                   *)
(***************************************************************************)
C20_UniqueVariableNames ==
    \A i, j \in DOMAIN variables : variables[i].name = variables[j].name => i = j

MaxGroupNodes == 4
MaxGroups == 2

GroupNodeIds == 1..MaxGroupNodes

TaskGroup(id, taskIds) == [id |-> id, taskIds |-> taskIds]

\* nodes.map((n) => n.id) of the selected nodes, in node array order
createGroupFromNodes(selectedNodes, id) ==
    TaskGroup(id, SetToSeq(selectedNodes))

\* [...new Set([...group.taskIds, ...taskIds])]
addTasksToGroup(group, taskIds) ==
    [group EXCEPT !.taskIds =
        @ \o SelectSeq(taskIds, LAMBDA t : t \notin SeqToSet(group.taskIds))]

removeTasksFromGroup(group, taskIds) ==
    [group EXCEPT !.taskIds = SelectSeq(@, LAMBDA t : t \notin SeqToSet(taskIds))]

\* The mutant of canCreateFromSelection: any selection that is not empty.
canCreateFromAnySelection(selectedNodeIds) == selectedNodeIds # {}

canCreateFromSelection(selectedNodeIds) ==
    /\ selectedNodeIds # {}
    /\ \A nodeId \in selectedNodeIds :
          ~\E g \in DOMAIN groups : nodeId \in SeqToSet(groups[g].taskIds)

GroupUnchanged ==
    UNCHANGED <<nodes, edges, executionState, abortControllerRef, runs, runCount,
                hist, nodeIdCounter, orderArgs, orderOut, variables, call,
                variableIdCounter>>

\* The "Group n selected tasks" button, shown when canCreateFromSelection.
handleCreateGroup(selectedNodeIds) ==
    /\ Len(groups) < MaxGroups
    /\ canCreateFromSelection(selectedNodeIds)
    /\ groups' = Append(groups, createGroupFromNodes(selectedNodeIds, Len(groups) + 1))
    /\ GroupUnchanged

\* Tasks that belong to another group are not added.
handleAddTasksToGroup(g, taskIds) ==
    /\ IF \E t \in SeqToSet(taskIds), h \in DOMAIN groups :
             h # g /\ t \in SeqToSet(groups[h].taskIds)
       THEN UNCHANGED groups
       ELSE groups' = [groups EXCEPT ![g] = addTasksToGroup(@, taskIds)]
    /\ GroupUnchanged

handleRemoveTasksFromGroup(g, taskIds) ==
    /\ groups' = [groups EXCEPT ![g] = removeTasksFromGroup(@, taskIds)]
    /\ GroupUnchanged

InitGroups ==
    /\ InitCondition
    /\ groups = <<>>

NextGroups ==
    \/ \E selectedNodeIds \in SUBSET GroupNodeIds : handleCreateGroup(selectedNodeIds)
    \/ \E g \in DOMAIN groups, taskIds \in BoundedSeqs(GroupNodeIds, 2) :
          handleAddTasksToGroup(g, taskIds)
    \/ \E g \in DOMAIN groups, taskIds \in BoundedSeqs(GroupNodeIds, 2) :
          handleRemoveTasksFromGroup(g, taskIds)

SpecGroups == InitGroups /\ [][NextGroups]_vars

MaxExportNodes == 2

MaxExportEdges == 2

Line(kind, text, name, stamp) ==
    [kind |-> kind, text |-> text, name |-> name, stamp |-> stamp]

Comment(text) == Line("comment", text, <<>>, 0)

Code(text) == Line("code", text, <<>>, 0)

Blank == Line("blank", "", <<>>, 0)

CloseBrace == Line("close", "}", <<>>, 0)

\* defaultExportOptions, overridden by the two options the model varies.
ExportOptions(includeComments, includeDisabledTasks) ==
    [includeComments |-> includeComments, includeDescriptions |-> TRUE,
     includeDisabledTasks |-> includeDisabledTasks, variableFormat |-> "properties"]

\* .replace(/_+/g, '_')
RECURSIVE CollapseUnderscores(_)
CollapseUnderscores(name) ==
    IF Len(name) < 2 THEN name
    ELSE IF name[1] = "_" /\ name[2] = "_"
         THEN CollapseUnderscores(Tail(name))
         ELSE <<name[1]>> \o CollapseUnderscores(Tail(name))

toTaskIdentifier(name) ==
    LET replaced == [i \in DOMAIN name |->
                        IF IsAlphaNumeric(name[i]) \/ name[i] = "_" THEN name[i] ELSE "_"]
        prefixed == IF Len(replaced) > 0 /\ replaced[1] \in {"0", "1"}
                    THEN <<"_">> \o replaced ELSE replaced
    IN  CollapseUnderscores(prefixed)

\* taskNameMap.get(id), <<>> for undefined
buildTaskNameMap(ns, id) ==
    IF \E i \in DOMAIN ns : ns[i].id = id
    THEN toTaskIdentifier(ns[CHOOSE i \in DOMAIN ns :
                                ns[i].id = id /\ \A j \in DOMAIN ns : ns[j].id = id => j <= i].taskName)
    ELSE <<>>

getDependencyMethod(depType) ==
    IF depType \in {"dependsOn", "mustRunAfter", "shouldRunAfter", "finalizedBy"}
    THEN depType ELSE "dependsOn"

getGradleTaskClass(taskType) ==
    CASE taskType \in {"Exec", "Delete", "Zip", "Jar", "Test", "JavaCompile"} -> taskType
      [] taskType \in {"Copy", "ProcessResources"} -> "Copy"
      [] taskType = "HttpRequest" -> "Exec"
      [] OTHER -> "DefaultTask"

\* "Dependencies from edges": one line for every edge that enters the node.
dependencyLines(node, es, ns) ==
    LET dependencies == SelectSeq(es, LAMBDA e :
                            e.target = node.id /\ buildTaskNameMap(ns, e.source) # <<>>)
    IN  [i \in DOMAIN dependencies |->
            Line("call", getDependencyMethod(dependencies[i].kind),
                 buildTaskNameMap(ns, dependencies[i].source), 0)]

\* "Finalizers (reverse edges)"
finalizerLines(node, es, ns) ==
    LET finalizers == SelectSeq(es, LAMBDA e :
                          e.source = node.id /\ e.kind = "finalizedBy" /\
                          buildTaskNameMap(ns, e.target) # <<>>)
    IN  [i \in DOMAIN finalizers |->
            Line("call", "finalizedBy", buildTaskNameMap(ns, finalizers[i].target), 0)]

\* The nodes of the model have no group, description, config, condition or
\* timeout.
generateTask(node, es, ns, options) ==
    LET taskName == toTaskIdentifier(node.taskName)
        taskClass == getGradleTaskClass(node.taskType)
    IN  IF ~node.enabled /\ options.includeDisabledTasks
        THEN <<Comment("// Task disabled in visual editor"),
               Line("comment", taskClass, taskName, 0), Blank>>
        ELSE IF ~node.enabled THEN <<>>
        ELSE <<IF taskClass = "DefaultTask"
               THEN Line("registerDefault", "", taskName, 0)
               ELSE Line("register", taskClass, taskName, 0)>> \o
             dependencyLines(node, es, ns) \o finalizerLines(node, es, ns) \o
             <<CloseBrace, Blank>>

\* Kahn's algorithm over the dependsOn edges, then the nodes it left out.
topologicalSort(ns, es) ==
    LET ids == SeqToSet(MapIds(ns))
        dependsOn == SelectSeq(es, LAMBDA e : e.kind = "dependsOn")
        inDegree == [n \in ids |->
                        Cardinality({i \in DOMAIN dependsOn : dependsOn[i].target = n})]
        adjacency == [n \in ids |->
                         MapTargets(SelectSeq(dependsOn, LAMBDA e : e.source = n))]
        queue == MapIds(SelectSeq(ns, LAMBDA n : inDegree[n.id] = 0))
        sorted == KahnLoop(queue, inDegree, <<>>, adjacency, ids)
        result == [i \in DOMAIN sorted |->
                      ns[CHOOSE k \in DOMAIN ns : ns[k].id = sorted[i]]]
    IN  result \o SelectSeq(ns, LAMBDA n : n.id \notin SeqToSet(sorted))

\* now is the reading of the clock, new Date(), during the call.
generateGradleKts(ns, es, vs, options, now) ==
    LET userVariables == SelectSeq(vs, LAMBDA v : ~v.isSystem)
        hasJavaTasks == \E i \in DOMAIN ns : ns[i].taskType \in {"JavaCompile", "Test", "Jar"}
        sortedNodes == topologicalSort(ns, es)
    IN  (IF options.includeComments
         THEN <<Comment("/**"), Comment(" * Generated by Gradle Flow Visual Editor"),
                Line("comment", " * Generated on: ", <<>>, now), Comment(" */"), Blank>>
         ELSE <<>>) \o
        <<Code("import java.time.Duration"), Blank>> \o
        (IF options.includeComments THEN <<Comment("// Apply necessary plugins")>> ELSE <<>>) \o
        <<Code("plugins {"), Code("    base")>> \o
        (IF hasJavaTasks THEN <<Code("    java")>> ELSE <<>>) \o
        <<CloseBrace, Blank>> \o
        (IF Len(vs) > 0 /\ options.variableFormat = "properties"
         THEN (IF options.includeComments
               THEN <<Comment("// Project properties")>> ELSE <<>>) \o
              (IF Len(userVariables) > 0
               THEN [i \in DOMAIN userVariables |->
                        Line("val", userVariables[i].name, <<>>, 0)] \o <<Blank>>
               ELSE <<>>)
         ELSE <<>>) \o
        (IF options.includeComments
         THEN <<Comment("// ===="), Comment("// Task Definitions"), Comment("// ===="), Blank>>
         ELSE <<>>) \o
        Flatten([i \in DOMAIN sortedNodes |-> generateTask(sortedNodes[i], es, ns, options)])

(***************************************************************************)
(* The script parser on the text of a script: gradleImport.ts.             *)
(***************************************************************************)
removeComments(text) == SelectSeq(text, LAMBDA l : l.kind # "comment")

\* extractBalancedBraces: the lines after the registration at i, up to the
\* brace that closes its block (no line of the model opens a nested block).
extractBalancedBraces(text, i) ==
    LET end == IF \E k \in (i + 1)..Len(text) : text[k].kind = "close"
               THEN CHOOSE k \in (i + 1)..Len(text) :
                        text[k].kind = "close" /\
                        \A j \in (i + 1)..(k - 1) : text[j].kind # "close"
               ELSE Len(text) + 1
    IN  SubSeq(text, i + 1, end - 1)

\* The registrations the patterns match, each with the calls of its block.
Registrations(text) ==
    LET at == SelectSeq([i \in DOMAIN text |-> i],
                        LAMBDA i : text[i].kind \in {"register", "registerDefault"})
    IN  [r \in DOMAIN at |->
            LET block == SelectSeq(extractBalancedBraces(text, at[r]),
                                   LAMBDA l : l.kind = "call")
            IN  [name |-> text[at[r]].name,
                 type |-> IF text[at[r]].kind = "register" THEN text[at[r]].text ELSE "none",
                 body |-> [k \in DOMAIN block |->
                              [method |-> block[k].text, name |-> block[k].name]]]]

parseGradleKtsText(text) == parseGradleKts(Registrations(removeComments(text)))

(***************************************************************************)
(* Export of a graph, a second export of the same graph, and import of the *)
(* exported script followed by an export of the imported graph.            *)
(***************************************************************************)
\* The graphs: nodes 1..n, at most one of them disabled, and edges between
\* different nodes.
ExportNodes ==
    { [i \in 1..n |-> TaskNode(i, names[i], types[i], i # disabled)] :
        n \in {MaxExportNodes},
        names \in { << <<"a">>, <<"b">>, <<"a", "b">> >>,
                    << <<"b">>, <<"a", "-", "b">>, <<"a">> >> },
        types \in [1..MaxExportNodes -> {"Copy", "Custom", "HttpRequest"}],
        disabled \in 0..MaxExportNodes }

ExportEdges ==
    BoundedSeqs({ e \in { Edge(source, target, kind) :
                            source \in 1..MaxExportNodes, target \in 1..MaxExportNodes,
                            kind \in DependencyType } : e.source # e.target },
                MaxExportEdges)

ExportCall(ns, es, options, now, later) ==
    [fn |-> "generateGradleKts", called |-> FALSE, calledAgain |-> FALSE,
     parsed |-> FALSE, regenerated |-> FALSE,
     nodes |-> ns, edges |-> es, options |-> options, now |-> now, later |-> later,
     text |-> <<>>, textAgain |-> <<>>,
     result |-> [nodes |-> <<>>, edges |-> <<>>, errors |-> <<>>, warnings |-> <<>>],
     textOfResult |-> <<>>]

InitExport ==
    /\ nodes = [i \in NodeIds |-> Node(i, TRUE, TRUE)]
    /\ edges = ChainEdges
    /\ executionState = createInitialExecutionState
    /\ abortControllerRef = 0
    /\ runs = [r \in RunIds |-> NoRun]
    /\ runCount = 0
    /\ hist = InitHist
    /\ nodeIdCounter = InitialNodeIdCounter
    /\ orderArgs = NoCall
    /\ orderOut = <<>>
    /\ variables = systemVariables \o <<Variable("var_1", "foo", "x", FALSE)>>
    /\ variableIdCounter = 1
    /\ groups = <<>>
    /\ \E ns \in ExportNodes, es \in ExportEdges, includeComments \in BOOLEAN,
          includeDisabledTasks \in BOOLEAN, later \in 1..2 :
          call = ExportCall(ns, es, ExportOptions(includeComments, includeDisabledTasks),
                            1, later)

ExportUnchanged ==
    UNCHANGED <<nodes, edges, executionState, abortControllerRef, runs, runCount,
                hist, nodeIdCounter, orderArgs, orderOut, variables,
                variableIdCounter, groups>>

CallGenerateGradleKts ==
    /\ call.fn = "generateGradleKts"
    /\ ~call.called
    /\ call' = [call EXCEPT !.called = TRUE,
                   !.text = generateGradleKts(call.nodes, call.edges, variables,
                                              call.options, call.now)]
    /\ ExportUnchanged

CallGenerateGradleKtsAgain ==
    /\ call.fn = "generateGradleKts"
    /\ call.called
    /\ ~call.calledAgain
    /\ call' = [call EXCEPT !.calledAgain = TRUE,
                   !.textAgain = generateGradleKts(call.nodes, call.edges, variables,
                                                   call.options, call.later)]
    /\ ExportUnchanged

CallParseGenerated ==
    /\ call.fn = "generateGradleKts"
    /\ call.called
    /\ ~call.parsed
    /\ call' = [call EXCEPT !.parsed = TRUE, !.result = parseGradleKtsText(call.text)]
    /\ ExportUnchanged

CallGenerateParsed ==
    /\ call.fn = "generateGradleKts"
    /\ call.parsed
    /\ ~call.regenerated
    /\ call' = [call EXCEPT !.regenerated = TRUE,
                   !.textOfResult =
                       generateGradleKts(call.result.nodes, call.result.edges, variables,
                                         call.options, call.now)]
    /\ ExportUnchanged

NextExport ==
    \/ CallGenerateGradleKts
    \/ CallGenerateGradleKtsAgain
    \/ CallParseGenerated
    \/ CallGenerateParsed

SpecExport == InitExport /\ [][NextExport]_vars

(***************************************************************************)
(* C23: for a graph of the recognized idiom subset (every task enabled,    *)
(* task names that are distinct identifiers, kinds that the registration   *)
(* header carries), parsing the generated script gives back the same task  *)
(* names and kinds and the same set of (source name, target name, kind)    *)
(* edges, and the script generated from the parsed graph has the same      *)
(* blocks, with the same declarations, as the script generated first.      *)
(***************************************************************************)
InIdiomSubset(ns) ==
    /\ \A i \in DOMAIN ns :
          /\ ns[i].enabled
          /\ toTaskIdentifier(ns[i].taskName) = ns[i].taskName
          /\ TASK_TYPE_MAP(getGradleTaskClass(ns[i].taskType)) = ns[i].taskType
    /\ \A i, j \in DOMAIN ns : ns[i].taskName = ns[j].taskName => i = j

TaskSet(ns) == { <<ns[i].taskName, ns[i].taskType>> : i \in DOMAIN ns }

NameOfId(ns, id) == ns[CHOOSE i \in DOMAIN ns : ns[i].id = id].taskName

EdgeSet(ns, es) ==
    { <<NameOfId(ns, es[i].source), NameOfId(ns, es[i].target), es[i].kind>> :
        i \in DOMAIN es }

\* The blocks of a script: name, class and the set of declarations.
BlockSet(text) ==
    LET blocks == Registrations(removeComments(text))
    IN  { [name |-> blocks[b].name, type |-> blocks[b].type,
           body |-> SeqToSet(blocks[b].body)] : b \in DOMAIN blocks }

C23_RoundTrip ==
    (call.fn = "generateGradleKts" /\ InIdiomSubset(call.nodes)) =>
        /\ call.parsed =>
              /\ TaskSet(call.result.nodes) = TaskSet(call.nodes)
              /\ EdgeSet(call.result.nodes, call.result.edges) =
                     EdgeSet(call.nodes, call.edges)
        /\ call.regenerated => BlockSet(call.textOfResult) = BlockSet(call.text)

\* The same for graphs without finalizedBy edges.
C23_OrderingEdgesOnly ==
    (\A i \in DOMAIN call.edges : call.edges[i].kind # "finalizedBy") => C23_RoundTrip

(***************************************************************************)
(* C24: in the generated script every edge between two emitted tasks has   *)
(* exactly one declaration, of the method of its kind: a dependsOn,        *)
(* mustRunAfter or shouldRunAfter edge names its source in the block of    *)
(* its target, a finalizedBy edge names its target in the block of its     *)
(* source; and the blocks hold no declaration between two emitted tasks    *)
(* other than these.                                                       *)
(***************************************************************************)
GeneratedBlocks == Registrations(removeComments(call.text))

\* The declarations of the generated script: block b, call k of its body.
Declarations ==
    { d \in (DOMAIN GeneratedBlocks) \X (1..Len(call.text)) :
        d[2] \in DOMAIN GeneratedBlocks[d[1]].body }

EmittedName(id) == toTaskIdentifier(call.nodes[id].taskName)

BetweenEmitted(e) == call.nodes[e.source].enabled /\ call.nodes[e.target].enabled

\* Declaration d is the one edge e asks for.
Declares(d, e) ==
    /\ GeneratedBlocks[d[1]].body[d[2]].method = e.kind
    /\ GeneratedBlocks[d[1]].name =
           EmittedName(IF e.kind = "finalizedBy" THEN e.source ELSE e.target)
    /\ GeneratedBlocks[d[1]].body[d[2]].name =
           EmittedName(IF e.kind = "finalizedBy" THEN e.target ELSE e.source)

EmittedNames == { EmittedName(i) : i \in {k \in DOMAIN call.nodes : call.nodes[k].enabled} }

C24_OneDeclarationPerEdge ==
    (call.fn = "generateGradleKts" /\ call.called) =>
        /\ \A i \in DOMAIN call.edges :
              BetweenEmitted(call.edges[i]) =>
                  Cardinality({d \in Declarations : Declares(d, call.edges[i])}) = 1
        /\ \A d \in Declarations :
              GeneratedBlocks[d[1]].body[d[2]].name \in EmittedNames =>
                  \E i \in DOMAIN call.edges :
                      BetweenEmitted(call.edges[i]) /\ Declares(d, call.edges[i])

\* The same without finalizedBy edges in the graph.
C24_OrderingEdgesOnly ==
    (\A i \in DOMAIN call.edges : call.edges[i].kind # "finalizedBy") =>
        C24_OneDeclarationPerEdge

(***************************************************************************)
(* C25: generateGradleKts is deterministic: a second call with the same    *)
(* nodes, edges, variables and options returns the same text, line for     *)
(* line, as the first.                                                     *)
(***************************************************************************)
C25_Deterministic ==
    (call.fn = "generateGradleKts" /\ call.calledAgain) => call.textAgain = call.text

\* The same for calls that read the same clock value, or write no header.
C25_SameClock ==
    (call.fn = "generateGradleKts" /\ call.calledAgain /\
     (call.later = call.now \/ ~call.options.includeComments)) =>
        call.textAgain = call.text

(***************************************************************************)
(* C27: whenever a run loop is active and has not been aborted, the        *)
(* active-run pointer abortControllerRef refers to that loop's own abort   *)
(* controller, so that a Stop aborts it; and the pointer is cleared only   *)
(* by the run it refers to, when that run returns.                         *)
(***************************************************************************)
PointsToOwnController ==
    \A r \in ActiveRuns : ~runs[r].aborted => abortControllerRef = r

ClearedByOwner ==
    (abortControllerRef # 0 /\ abortControllerRef' = 0) =>
        \/ runs[abortControllerRef].pc # "done" /\ runs'[abortControllerRef].pc = "done"
        \/ runCount' # runCount

C27_ActiveRunPointer == []PointsToOwnController /\ [][ClearedByOwner]_vars

\* The pointer half alone, and both halves while no second handleRun has
\* started.
C27_FirstRunOnly ==
    [](runCount <= 1 => PointsToOwnController) /\
    [][runCount' <= 1 => ClearedByOwner]_vars

(***************************************************************************)
(* C28: at every point the execution status stored on a node equals the    *)
(* status recorded for that node in the result map of the current          *)
(* ExecutionState, and is idle when the map has no record for the node.    *)
(***************************************************************************)
C28_NodeStatusMatchesResults ==
    \A i \in DOMAIN nodes :
        nodes[i].executionStatus = ResultStatus(executionState, nodes[i].id)

\* The same while the ExecutionState is the one the first handleRun wrote.
C28_FirstRunOnly == (runCount <= 1 /\ hist.owner # 0) => C28_NodeStatusMatchesResults

(***************************************************************************)
(* C29: edits keep, for every node, the dependsOn list stored in the       *)
(* node's data equal to the set of sources of the dependsOn edges that     *)
(* enter the node: an edit made when the two agree leaves them agreeing.   *)
(***************************************************************************)
DependsOnListsMatch(ns, es) ==
    \A i \in DOMAIN ns :
        SeqToSet(ns[i].dependsOn) =
            {es[k].source : k \in {j \in DOMAIN es :
                                      es[j].target = ns[i].id /\ es[j].kind = "dependsOn"}}

C29_DependsOnListMatchesEdges ==
    [][DependsOnListsMatch(nodes, edges) => DependsOnListsMatch(nodes', edges')]_vars

\* The same for the edits of the property panel alone.
C29_PropertyPanelOnly ==
    [][(DependsOnListsMatch(nodes, edges) /\ nodes' # nodes /\ Len(nodes') = Len(nodes)) =>
           DependsOnListsMatch(nodes', edges')]_vars

(***************************************************************************)
(* C30: after any sequence of edits no two edges of the graph have the     *)
(* same edge id, so that an update or a deletion addressed by an edge id   *)
(* changes or removes exactly one edge.                                    *)
(***************************************************************************)
C30_UniqueEdgeIds ==
    \A i, j \in DOMAIN edges : edges[i].id = edges[j].id => i = j

====
